---------------------------- MODULE Spec2Model ----------------------------
(***************************************************************************)
(* MQTT-over-BLE transport adapter                                         *)
(* (libraries/c_sdk/standard/ble/src/services/mqtt_ble).                   *)
(*                                                                         *)
(* Outbound: IotBleMqttTransportSend parses the standard MQTT packet the   *)
(* client wrote, hands the decoded record to the BLE serializer and the    *)
(* encoded frame to the channel.  Inbound: IotBleMqttTransportAcceptData   *)
(* peeks the channel, rebuilds a standard MQTT frame and pushes it into    *)
(* the stream buffer that IotBleMqttTransportReceive reads.                *)
(*                                                                         *)
(* Bytes are naturals 0..255, buffers are sequences of bytes, C indices    *)
(* are 0-based (Rd).  size_t is 32 bits wide: a size_t value of 2^31 or    *)
(* more is written as the negative integer congruent to it modulo 2^32,    *)
(* so that + and - are those of C and x > 0 of C is SizeNonZero(x).        *)
(***************************************************************************)
EXTENDS Integers, Sequences, FiniteSets, TLC

VARIABLES
    publishInfo,     \* pContext->publishInfo (MQTTBLEPublishInfo_t)
    subscriptions,   \* static _subscriptions[ MQTT_MAX_SUBS_PER_PACKET ]
    halted,          \* a failed configASSERT, or a scan that left its buffer,
                     \* stopped the system
    lastSend,        \* log of the last IotBleMqttTransportSend call
    rxChannel,       \* packets waiting in the BLE channel's receive buffer
    streamBuffer,    \* pContext->xStreamBuffer: bytes queued for the client
    lastAccept,      \* log of the last IotBleMqttTransportAcceptData call
    rl,              \* varint codec under test: input, encoding, decoding
    ser,             \* ack serializer under test: arguments and result
    fifo             \* the byte queue seen by its two tasks: the writes a
                     \* dispatch has still to make, every byte the queue
                     \* took, every byte read, and the last read

vars == <<publishInfo, subscriptions, halted, lastSend,
          rxChannel, streamBuffer, lastAccept, rl, ser, fifo>>

outVars == <<publishInfo, subscriptions, lastSend>>
inVars == <<rxChannel, streamBuffer, lastAccept>>

-----------------------------------------------------------------------------
(* Program constants.                                                      *)

SIZE_OF_SIMPLE_ACK == 4
SIZE_OF_PING == 2
SIZE_OF_SUB_ACK == 5
MAX_ENCODE_LENGTH == 4
REMAINING_LENGTH_INVALID == 268435456
MAX_REMAINING_LENGTH == REMAINING_LENGTH_INVALID - 1

CLIENT_PACKET_TYPE_CONNECT == 16
CLIENT_PACKET_TYPE_PUBLISH == 48
CLIENT_PACKET_TYPE_PUBACK == 64
CLIENT_PACKET_TYPE_PUBREC == 80
CLIENT_PACKET_TYPE_PUBREL == 96
CLIENT_PACKET_TYPE_PUBCOMP == 112
CLIENT_PACKET_TYPE_SUBSCRIBE == 128
CLIENT_PACKET_TYPE_UNSUBSCRIBE == 160
CLIENT_PACKET_TYPE_PINGREQ == 192
CLIENT_PACKET_TYPE_DISCONNECT == 224

MQTT_PACKET_TYPE_CONNACK == 32
MQTT_PACKET_TYPE_PUBLISH == 48
MQTT_PACKET_TYPE_PUBACK == 64
MQTT_PACKET_TYPE_PUBREC == 80
MQTT_PACKET_TYPE_PUBREL == 98
MQTT_PACKET_TYPE_PUBCOMP == 112
MQTT_PACKET_TYPE_SUBACK == 144
MQTT_PACKET_TYPE_UNSUBACK == 176
MQTT_PACKET_TYPE_PINGRESP == 208

-----------------------------------------------------------------------------
(* Bounds of the model.                                                    *)

\* the varint codec is exercised on 0..MaxSmallLength and around each
\* boundary of the 1-, 2-, 3- and 4-byte encodings
MaxSmallLength == 130
\* capacity of the stream buffer (pContext->bufSize)
QueueCap == 7
\* packets the peer may have in flight in the channel's receive buffer
MaxRx == 1
\* capacity of the subscription scratch list (a configuration value)
MQTT_MAX_SUBS_PER_PACKET == 2
\* bytes of a topic or payload slice that the model keeps of what a pointer
\* and a length denote (the length itself is kept exactly)
MaxView == 6
\* iterations after which a scan or loop over a buffer is taken not to end
MaxScan == 40

-----------------------------------------------------------------------------
(* Bytes and buffers.                                                      *)

Byte == 0..255

\* comparisons of size_t values
SizeNonZero(x) == x # 0
SizeLeq(x, y) == IF (x < 0) = (y < 0) THEN x <= y ELSE y < 0

\* buf[ i ] of C; a read past the end of the buffer yields whatever the
\* memory behind it holds, g
Rd(buf, g, i) == IF i < Len(buf) THEN buf[i + 1] ELSE g

\* bit `position` of x (UINT8_CHECK_BIT, BIT_MASK)
Pow2(k) == 2 ^ k
Bit(x, k) == (x \div Pow2(k)) % 2

BitIn(x, k, bits) == IF k \in bits THEN Bit(x, k) * Pow2(k) ELSE 0

\* x & mask for a mask that is a set of bit positions
AndMask(x, bits) ==
    BitIn(x, 0, bits) + BitIn(x, 1, bits) + BitIn(x, 2, bits) + BitIn(x, 3, bits)
    + BitIn(x, 4, bits) + BitIn(x, 5, bits) + BitIn(x, 6, bits) + BitIn(x, 7, bits)

\* x | mask, for a byte x
OrMask(x, bits) == x + AndMask(255 - x, bits)

HiByte(x) == (x \div 256) % 256
LoByte(x) == x % 256

getIntFromTwoBytes(buf, g, i) == (Rd(buf, g, i) * 256 + Rd(buf, g, i + 1)) % 65536

UINT16_DECODE(buf, g, i) == (Rd(buf, g, i) * 256 + Rd(buf, g, i + 1)) % 65536

\* buf[ from .. from + n - 1 ], reading past the end where the length asks
Slice(buf, g, from, n) == [k \in 1..n |-> Rd(buf, g, from + k - 1)]

\* convertIntToQos without the default to QoS 1
convertIntToQos_NoDefault(incomingQos) ==
    incomingQos

\* MQTTQoS_t values are 0, 1, 2
convertIntToQos(incomingQos) ==
    CASE incomingQos = 0 -> 0
      [] incomingQos = 1 -> 1
      [] OTHER -> 1

-----------------------------------------------------------------------------
(* Varint codec.                                                           *)

\* getRemainingLength with the limit of the multiplier one power of 128 too
\* low: a fourth length byte is refused
RECURSIVE getRemainingLengthLoop_ShortLimit(_, _, _, _, _)
getRemainingLengthLoop_ShortLimit(buf, g, remainingLength, multiplier, encodedLength) ==
    IF multiplier > 16384
    THEN <<REMAINING_LENGTH_INVALID, encodedLength>>
    ELSE LET encodedByte == Rd(buf, g, encodedLength)
             r == remainingLength + (encodedByte % 128) * multiplier
         IN IF encodedByte \div 128 # 0
            THEN getRemainingLengthLoop_ShortLimit(buf, g, r, multiplier * 128,
                                                  encodedLength + 1)
            ELSE <<r, encodedLength + 1>>

\* getRemainingLength returning the length it has summed, not the sentinel,
\* when a fifth length byte would be needed
RECURSIVE getRemainingLengthLoop_NoSentinel(_, _, _, _, _)
getRemainingLengthLoop_NoSentinel(buf, g, remainingLength, multiplier, encodedLength) ==
    IF multiplier > 2097152
    THEN <<remainingLength, encodedLength>>
    ELSE LET encodedByte == Rd(buf, g, encodedLength)
             r == remainingLength + (encodedByte % 128) * multiplier
         IN IF encodedByte \div 128 # 0
            THEN getRemainingLengthLoop_NoSentinel(buf, g, r, multiplier * 128,
                                                  encodedLength + 1)
            ELSE <<r, encodedLength + 1>>

\* getRemainingLength: returns <<remainingLength, encodedLength>>
RECURSIVE getRemainingLengthLoop(_, _, _, _, _)
getRemainingLengthLoop(buf, g, remainingLength, multiplier, encodedLength) ==
    IF multiplier > 2097152
    THEN <<REMAINING_LENGTH_INVALID, encodedLength>>
    ELSE LET encodedByte == Rd(buf, g, encodedLength)
             r == remainingLength + (encodedByte % 128) * multiplier
         IN IF encodedByte \div 128 # 0
            THEN getRemainingLengthLoop(buf, g, r, multiplier * 128,
                                        encodedLength + 1)
            ELSE <<r, encodedLength + 1>>

getRemainingLength(buf, g) == getRemainingLengthLoop(buf, g, 0, 1, 0)

\* encodeRemainingLength: the bytes written to pBuffer (encodeLength is
\* their number)
RECURSIVE encodeRemainingLengthLoop(_)
encodeRemainingLengthLoop(length) ==
    LET encodeByte == length % 128
        rest == length \div 128
    IN IF rest > 0
       THEN <<OrMask(encodeByte, {7})>> \o encodeRemainingLengthLoop(rest)
       ELSE <<encodeByte>>

encodeRemainingLength(length) == encodeRemainingLengthLoop(length)

-----------------------------------------------------------------------------
(* Pointers.  A borrowed slice is the offset into the caller's buffer and  *)
(* the bytes it denotes; a heap copy is the bytes.                         *)

NullPtr == [null |-> TRUE, off |-> 0, bytes |-> <<>>]

View(buf, g, from, n) == Slice(buf, g, from, IF SizeLeq(n, MaxView) THEN n ELSE MaxView)

PtrAt(buf, g, from, n) == [null |-> FALSE, off |-> from, bytes |-> View(buf, g, from, n)]

HeapCopy(buf, g, from, n) == [null |-> FALSE, off |-> 0, bytes |-> View(buf, g, from, n)]

Drop(buf, n) == IF n >= Len(buf) THEN <<>> ELSE SubSeq(buf, n + 1, Len(buf))

-----------------------------------------------------------------------------
(* CONNECT parser.                                                         *)

\* while( buf[ bufferIndex ] != 77U ) bufferIndex++;  -1: the scan left the
\* buffer and found no 'M' behind it
RECURSIVE FindM(_, _, _)
FindM(buf, g, bufferIndex) ==
    IF Rd(buf, g, bufferIndex) = 77 THEN bufferIndex
    ELSE IF bufferIndex >= Len(buf) \/ bufferIndex >= MaxScan THEN -1
    ELSE FindM(buf, g, bufferIndex + 1)

EmptyConnectInfo ==
    [cleanSession |-> FALSE, keepAliveSeconds |-> 0,
     clientIdentifierLength |-> 0, pClientIdentifier |-> NullPtr,
     userNameLength |-> 0, pUserName |-> NullPtr,
     passwordLength |-> 0, pPassword |-> NullPtr]

\* parseConnect returns [status, connectConfig, willInfo]; willInfo is the
\* local MQTTPublishInfo_t the function fills and drops.  The function is
\* modelled block by block, each block handing the status, the record and
\* bufferIndex it leaves to the next.

\* the parser skipping the test of the password length
parseConnectPassword_NoCheck(buf, g, status, connectConfig, willInfo, passwordFlag, bufferIndex) ==
    LET doPass == status = "MQTTSuccess" /\ passwordFlag
        passwordLength == getIntFromTwoBytes(buf, g, bufferIndex)
    IN [status |-> status,
        connectConfig |->
            IF doPass
            THEN [connectConfig EXCEPT
                    !.passwordLength = passwordLength,
                    !.pPassword = PtrAt(buf, g, bufferIndex + 2, passwordLength)]
            ELSE connectConfig,
        willInfo |-> willInfo]

\* the password block
parseConnectPassword(buf, g, status, connectConfig, willInfo, passwordFlag, bufferIndex) ==
    LET doPass == status = "MQTTSuccess" /\ passwordFlag
        passwordLength == getIntFromTwoBytes(buf, g, bufferIndex)
    IN [status |-> IF doPass /\ passwordLength = 0 THEN "MQTTBadParameter" ELSE status,
        connectConfig |->
            IF doPass
            THEN [connectConfig EXCEPT
                    !.passwordLength = passwordLength,
                    !.pPassword = PtrAt(buf, g, bufferIndex + 2, passwordLength)]
            ELSE connectConfig,
        willInfo |-> willInfo]

\* the user name block
parseConnectUserName(buf, g, status, connectConfig, willInfo, usernameFlag, passwordFlag, bufferIndex) ==
    LET doUser == status = "MQTTSuccess" /\ usernameFlag
        userNameLength == getIntFromTwoBytes(buf, g, bufferIndex)
    IN parseConnectPassword(buf, g,
          IF doUser /\ userNameLength = 0 THEN "MQTTBadParameter" ELSE status,
          IF doUser
          THEN [connectConfig EXCEPT
                  !.userNameLength = userNameLength,
                  !.pUserName = PtrAt(buf, g, bufferIndex + 2, userNameLength)]
          ELSE connectConfig,
          willInfo, passwordFlag,
          IF doUser THEN bufferIndex + 2 + userNameLength ELSE bufferIndex)

\* the last will set from the topic at bufferIndex on
WillInfo(buf, g, willQos, willRetain, bufferIndex, willTopicLength) ==
    IF willTopicLength = 0
    THEN [set |-> TRUE, qos |-> willQos, retain |-> willRetain,
          topicNameLength |-> 0, pTopicName |-> PtrAt(buf, g, bufferIndex + 2, 0),
          payloadLength |-> 0, pPayload |-> NullPtr]
    ELSE [set |-> TRUE, qos |-> willQos, retain |-> willRetain,
          topicNameLength |-> willTopicLength,
          pTopicName |-> PtrAt(buf, g, bufferIndex + 2, willTopicLength),
          payloadLength |->
              getIntFromTwoBytes(buf, g, bufferIndex + 2 + willTopicLength),
          pPayload |->
              PtrAt(buf, g, bufferIndex + 2 + willTopicLength + 2,
                    getIntFromTwoBytes(buf, g, bufferIndex + 2 + willTopicLength))]

\* the last will block
parseConnectWill(buf, g, status, connectConfig, flags, bufferIndex) ==
    LET doWill == status = "MQTTSuccess" /\ flags.willFlag
        willTopicLength == getIntFromTwoBytes(buf, g, bufferIndex)
        willPayloadLength ==
            getIntFromTwoBytes(buf, g, bufferIndex + 2 + willTopicLength)
    IN parseConnectUserName(buf, g,
          IF doWill /\ willTopicLength = 0 THEN "MQTTBadParameter" ELSE status,
          connectConfig,
          IF doWill
          THEN WillInfo(buf, g, flags.willQos, flags.willRetain, bufferIndex,
                        willTopicLength)
          ELSE [set |-> FALSE],
          flags.usernameFlag, flags.passwordFlag,
          IF doWill /\ willTopicLength # 0
          THEN bufferIndex + 2 + willTopicLength + 2 + willPayloadLength
          ELSE bufferIndex)

\* the flags read from the connect flags byte
ConnectFlags(ok, connectionFlags) ==
    [willFlag |-> ok /\ Bit(connectionFlags, 2) = 1,
     willQos |-> convertIntToQos(AndMask(connectionFlags, {3, 4}) \div 8),
     willRetain |-> ok /\ Bit(connectionFlags, 5) = 1,
     passwordFlag |-> ok /\ Bit(connectionFlags, 6) = 1,
     usernameFlag |-> ok /\ Bit(connectionFlags, 7) = 1]

\* the flag, keep alive and client identifier blocks; bufferIndex is at the
\* connect flags byte
parseConnectClientId(buf, g, status, connectionFlags, bufferIndex) ==
    LET ok == status = "MQTTSuccess"
        payload == IF ok THEN bufferIndex + 3 ELSE bufferIndex
        clientIdentifierLength ==
            IF ok THEN getIntFromTwoBytes(buf, g, payload) ELSE 0
    IN parseConnectWill(buf, g,
          IF ok /\ clientIdentifierLength = 0 THEN "MQTTBadParameter" ELSE status,
          IF ok
          THEN [EmptyConnectInfo EXCEPT
                  !.cleanSession = (Bit(connectionFlags, 1) = 1),
                  !.keepAliveSeconds = getIntFromTwoBytes(buf, g, bufferIndex + 1),
                  !.clientIdentifierLength = clientIdentifierLength,
                  !.pClientIdentifier =
                      PtrAt(buf, g, payload + 2, clientIdentifierLength)]
          ELSE EmptyConnectInfo,
          ConnectFlags(ok, connectionFlags),
          payload + 2 + clientIdentifierLength)

\* the protocol level and reserved bit checks; bufferIndex is at the level
parseConnectLevel(buf, g, bufferIndex) ==
    parseConnectClientId(buf, g,
        IF Rd(buf, g, bufferIndex) # 4 \/ Bit(Rd(buf, g, bufferIndex + 1), 0) # 0
        THEN "MQTTBadParameter" ELSE "MQTTSuccess",
        Rd(buf, g, bufferIndex + 1),
        bufferIndex + 1)

parseConnect(buf, g) ==
    IF FindM(buf, g, 0) = -1
    THEN [status |-> "Fault", connectConfig |-> EmptyConnectInfo,
          willInfo |-> [set |-> FALSE]]
    ELSE parseConnectLevel(buf, g, FindM(buf, g, 0) + 4)

-----------------------------------------------------------------------------
(* PUBLISH parser.                                                         *)

ZeroPublishInfo ==
    [pending |-> FALSE, dup |-> FALSE, retain |-> FALSE, qos |-> 0,
     topicNameLength |-> 0, pTopicName |-> NullPtr,
     payloadLength |-> 0, pPayload |-> NullPtr, packetIdentifier |-> 0]

\* bit positions of the flag masks
PUBLISH_FLAG_RETAIN_MASK == {0}
PUBLISH_FLAG_QOS_MASK == {1, 2}
PUBLISH_FLAG_DUP_MASK == {2}
PUBLISH_FLAG_QOS1_MASK == {1}
PUBLISH_FLAG_QOS2_MASK == {2}

MaskValue(bits) == AndMask(255, bits)

\* parsePublish returns [ret, info, invalidLength, index]; allocOk is
\* whether IotMqtt_MallocMessage returned a buffer.  The function is modelled
\* block by block, each block handing the record it has filled to the next.

\* the payload block; pPublishInfo holds the flags, the topic and the packet
\* identifier, index is at the payload
parsePublishPayload(buf, g, length, pPublishInfo, remainingLength, encodedLength, index) ==
    [ret |-> ~(index < length)
             /\ SizeNonZero(remainingLength + 1 + encodedLength - index),
     invalidLength |-> remainingLength = REMAINING_LENGTH_INVALID,
     index |-> index,
     info |-> [pPublishInfo EXCEPT
                 !.payloadLength = remainingLength + 1 + encodedLength - index,
                 !.pPayload =
                     IF index < length
                     THEN PtrAt(buf, g, index,
                                remainingLength + 1 + encodedLength - index)
                     ELSE @]]

\* the packet identifier block; index is behind the topic
parsePublishPacketId(buf, g, length, pPublishInfo, remainingLength, encodedLength, index) ==
    parsePublishPayload(buf, g, length,
        IF pPublishInfo.qos > 0
        THEN [pPublishInfo EXCEPT !.packetIdentifier = UINT16_DECODE(buf, g, index)]
        ELSE pPublishInfo,
        remainingLength, encodedLength,
        IF pPublishInfo.qos > 0 THEN index + 2 ELSE index)

\* the topic block; index is at the topic length
parsePublishTopic(buf, g, length, pPublishInfo, allocOk, remainingLength, encodedLength, index, topicNameLength) ==
    parsePublishPacketId(buf, g, length,
        [pPublishInfo EXCEPT
           !.topicNameLength = topicNameLength,
           !.pTopicName = IF allocOk
                          THEN HeapCopy(buf, g, index + 2, topicNameLength)
                          ELSE @],
        remainingLength, encodedLength, index + 2 + topicNameLength)

\* the flags of the first byte
parsePublishFlags(pPublishInfo, publishFlags) ==
    [pPublishInfo EXCEPT
       !.dup = AndMask(publishFlags, PUBLISH_FLAG_DUP_MASK)
                 = MaskValue(PUBLISH_FLAG_DUP_MASK),
       !.retain = AndMask(publishFlags, PUBLISH_FLAG_RETAIN_MASK)
                    = MaskValue(PUBLISH_FLAG_RETAIN_MASK),
       !.qos = convertIntToQos(AndMask(publishFlags, PUBLISH_FLAG_QOS_MASK) \div 2)]

\* d is what getRemainingLength decoded: <<remainingLength, encodedLength>>
parsePublishLength(buf, g, length, pPublishInfo, allocOk, d) ==
    parsePublishTopic(buf, g, length, pPublishInfo, allocOk, d[1], d[2],
                      1 + d[2], UINT16_DECODE(buf, g, 1 + d[2]))

parsePublish(buf, g, length, pPublishInfo, allocOk) ==
    parsePublishLength(buf, g, length,
                       parsePublishFlags(pPublishInfo, Rd(buf, g, 0) % 16),
                       allocOk, getRemainingLength(Drop(buf, 1), g))

-----------------------------------------------------------------------------
(* SUBSCRIBE / UNSUBSCRIBE parser.                                         *)

ZeroSubscription == [topicFilterLength |-> 0, pTopicFilter |-> NullPtr, qos |-> 0]

\* calculateNumSubs: buf is the packet, the filters start at base; -1: the
\* loop does not end within MaxScan iterations
RECURSIVE calculateNumSubsLoop(_, _, _, _, _, _, _)
calculateNumSubsLoop(buf, g, base, remainingLength, subscribe, totalSize, numSubs) ==
    IF remainingLength - totalSize > 0
    THEN IF numSubs >= MaxScan THEN -1
         ELSE LET t1 == (totalSize + getIntFromTwoBytes(buf, g, base + totalSize) + 2) % 65536
                  t2 == IF subscribe THEN (t1 + 1) % 65536 ELSE t1
              IN calculateNumSubsLoop(buf, g, base, remainingLength, subscribe,
                                      t2, (numSubs + 1) % 65536)
    ELSE numSubs

calculateNumSubs(buf, g, base, remainingLength, subscribe) ==
    calculateNumSubsLoop(buf, g, base, remainingLength, subscribe, 0, 0)

\* the for loop of parseSubscribe from entry subscriptionIndex on; entries
\* at and above the capacity of the list are not part of subs
RECURSIVE fillSubscriptions(_, _, _, _, _, _, _)
fillSubscriptions(buf, g, subscribe, subs, subscriptionIndex, subscriptionCount, bufferIndex) ==
    IF subscriptionIndex < subscriptionCount
    THEN LET len == getIntFromTwoBytes(buf, g, bufferIndex)
             b1 == (bufferIndex + len + 2) % 65536
             old == IF subscriptionIndex < MQTT_MAX_SUBS_PER_PACKET
                    THEN subs[subscriptionIndex + 1] ELSE ZeroSubscription
             e == [topicFilterLength |-> len,
                   pTopicFilter |-> PtrAt(buf, g, bufferIndex + 2, len),
                   qos |-> IF subscribe
                           THEN convertIntToQos(Rd(buf, g, b1) % 4)
                           ELSE old.qos]
             subs1 == IF subscriptionIndex < MQTT_MAX_SUBS_PER_PACKET
                      THEN [subs EXCEPT ![subscriptionIndex + 1] = e] ELSE subs
         IN fillSubscriptions(buf, g, subscribe, subs1, subscriptionIndex + 1,
                              subscriptionCount,
                              IF subscribe THEN (b1 + 1) % 65536 ELSE b1)
    ELSE subs

\* parseSubscribe: [status, subscriptionCount, identifier, subs]
parseSubscribeCounted(buf, g, subscribe, subs, identifier, subscriptionCount) ==
    IF subscriptionCount = -1
    THEN [status |-> "Fault", subscriptionCount |-> 0,
          identifier |-> identifier, subs |-> subs]
    ELSE IF subscriptionCount = 0
    THEN [status |-> "MQTTBadParameter", subscriptionCount |-> 0,
          identifier |-> identifier, subs |-> subs]
    ELSE [status |-> "MQTTSuccess", subscriptionCount |-> subscriptionCount,
          identifier |-> identifier,
          subs |-> fillSubscriptions(buf, g, subscribe, subs, 0,
                                     subscriptionCount, 4)]

parseSubscribe(buf, g, subscribe, subs) ==
    parseSubscribeCounted(buf, g, subscribe, subs,
        getIntFromTwoBytes(buf, g, 2),
        calculateNumSubs(buf, g, 4, (Rd(buf, g, 1) - 2) % 256, subscribe))

-----------------------------------------------------------------------------
(* External collaborators of the outbound path.                            *)

NoRecord == [kind |-> "none"]

\* the size of the frame the BLE serializer returns for a decoded record
EncodedSize(record) ==
    CASE record.kind = "connect" -> 8 + record.config.clientIdentifierLength
      [] record.kind = "publish" -> 6 + Len(record.info.pTopicName.bytes)
                                      + Len(record.info.pPayload.bytes)
      [] record.kind = "puback" -> 4
      [] record.kind = "subscribe" -> 4 + record.count
      [] record.kind = "unsubscribe" -> 3 + record.count
      [] OTHER -> 2

\* IotBleMqtt_Serialize*: an owned frame of EncodedSize bytes, or an error
IotBleMqtt_Serialize(record, serOk) ==
    IF serOk THEN [status |-> "MQTTSuccess", size |-> EncodedSize(record)]
    ELSE [status |-> "MQTTNoMemory", size |-> 0]

\* IotBleDataTransfer_Send: the bytes the channel accepted
IotBleDataTransfer_Send(size, chanOk) == IF chanOk THEN size ELSE size - 1

\* MQTT_DeserializeAck of a PUBACK whose pRemainingData is data:
\* [status, packetIdentifier]
MQTT_DeserializeAck(buf, g, data) ==
    LET id == UINT16_DECODE(buf, g, data)
    IN [status |-> IF id = 0 THEN "MQTTBadResponse" ELSE "MQTTSuccess",
        packetIdentifier |-> id]

-----------------------------------------------------------------------------
(* Outbound handlers.  Each returns the status, the record handed to the   *)
(* BLE serializer (NoRecord: the serializer was not called), the size of   *)
(* the frame, the reassembly slot and the scratch list it leaves, and      *)
(* whether a configASSERT stopped it or a scan left the buffer (halt).     *)

Outcome(handler, status, handed, size, info, subs, halt) ==
    [handler |-> handler, status |-> status, handed |-> handed,
     packetSize |-> size, info |-> info, subs |-> subs, halt |-> halt]

SerializedAs(handler, record, r, info, subs) ==
    Outcome(handler, r.status, record, r.size, info, subs, FALSE)

Serialized(handler, record, serOk, info, subs) ==
    SerializedAs(handler, record, IotBleMqtt_Serialize(record, serOk), info, subs)

\* handleOutgoingConnect once parseConnect has returned p
handleOutgoingConnectParsed(p, serOk, info, subs) ==
    IF p.status = "Fault"
    THEN Outcome("handleOutgoingConnect", "Fault", NoRecord, 0, info, subs, TRUE)
    ELSE IF p.status = "MQTTSuccess"
    THEN Serialized("handleOutgoingConnect",
                    [kind |-> "connect", config |-> p.connectConfig],
                    serOk, info, subs)
    ELSE Outcome("handleOutgoingConnect", p.status, NoRecord, 0, info, subs, FALSE)

handleOutgoingConnect(buf, g, serOk, info, subs) ==
    handleOutgoingConnectParsed(parseConnect(buf, g), serOk, info, subs)

PublishRecord(info) ==
    [kind |-> "publish", info |-> [info EXCEPT !.pending = FALSE],
     packetIdentifier |-> info.packetIdentifier]

\* the end of handleOutgoingPublish: info is the slot as the function has
\* set it, serialized unless the payload is still to come
handleOutgoingPublishSerialize(info, serOk, subs) ==
    IF ~info.pending
    THEN Serialized("handleOutgoingPublish", PublishRecord(info), serOk,
                    ZeroPublishInfo, subs)
    ELSE Outcome("handleOutgoingPublish", "MQTTSuccess", NoRecord, 0,
                 info, subs, FALSE)

\* the first call for a packet: p is what parsePublish returned
handleOutgoingPublishFirst(pPublishInfo, p, serOk, asserts, subs) ==
    IF asserts /\ p.invalidLength
    THEN Outcome("handleOutgoingPublish", "Asserted", NoRecord, 0,
                 pPublishInfo, subs, TRUE)
    ELSE handleOutgoingPublishSerialize([p.info EXCEPT !.pending = p.ret],
                                        serOk, subs)

\* the call that brings the payload of a pending packet
handleOutgoingPublishSecond(pPublishInfo, buf, g, bytesToSend, serOk, asserts, subs) ==
    IF asserts /\ pPublishInfo.payloadLength # bytesToSend
    THEN Outcome("handleOutgoingPublish", "Asserted", NoRecord, 0,
                 pPublishInfo, subs, TRUE)
    ELSE handleOutgoingPublishSerialize(
             [pPublishInfo EXCEPT
                !.pPayload = PtrAt(buf, g, 0, pPublishInfo.payloadLength),
                !.pending = FALSE],
             serOk, subs)

\* the reassembler keeping the slot pending after the payload arrived
handleOutgoingPublish_StaysPending(pPublishInfo, buf, g, bytesToSend, allocOk, serOk, asserts, subs) ==
    IF pPublishInfo.pending
    THEN Serialized("handleOutgoingPublish",
                    PublishRecord([pPublishInfo EXCEPT
                        !.pPayload = PtrAt(buf, g, 0, pPublishInfo.payloadLength)]),
                    serOk,
                    [pPublishInfo EXCEPT
                        !.pPayload = PtrAt(buf, g, 0, pPublishInfo.payloadLength)],
                    subs)
    ELSE handleOutgoingPublishFirst(pPublishInfo,
             parsePublish(buf, g, bytesToSend, pPublishInfo, allocOk),
             serOk, FALSE, subs)

handleOutgoingPublish(pPublishInfo, buf, g, bytesToSend, allocOk, serOk, asserts, subs) ==
    IF pPublishInfo.pending
    THEN handleOutgoingPublishSecond(pPublishInfo, buf, g, bytesToSend, serOk,
                                     asserts, subs)
    ELSE handleOutgoingPublishFirst(pPublishInfo,
             parsePublish(buf, g, bytesToSend, pPublishInfo, allocOk),
             serOk, asserts, subs)

\* handleOutgoingPuback once MQTT_DeserializeAck has returned d
handleOutgoingPubackDeserialized(d, serOk, info, subs) ==
    IF d.status = "MQTTSuccess"
    THEN Serialized("handleOutgoingPuback",
                    [kind |-> "puback", packetIdentifier |-> d.packetIdentifier],
                    serOk, info, subs)
    ELSE Outcome("handleOutgoingPuback", d.status, NoRecord, 0, info, subs, FALSE)

handleOutgoingPuback(buf, g, serOk, info, subs) ==
    handleOutgoingPubackDeserialized(MQTT_DeserializeAck(buf, g, 0), serOk, info, subs)

SubscriptionList(subs, count) ==
    [k \in 1..(IF count <= MQTT_MAX_SUBS_PER_PACKET THEN count
               ELSE MQTT_MAX_SUBS_PER_PACKET) |-> subs[k]]

\* handleOutgoingSubscribe / Unsubscribe once parseSubscribe has returned p
handleOutgoingSubOrUnsubParsed(handler, kind, p, serOk, info, subs) ==
    IF p.status = "Fault"
    THEN Outcome(handler, "Fault", NoRecord, 0, info, subs, TRUE)
    ELSE IF p.status = "MQTTSuccess"
    THEN Serialized(handler,
                    [kind |-> kind, count |-> p.subscriptionCount,
                     list |-> SubscriptionList(p.subs, p.subscriptionCount),
                     packetIdentifier |-> p.identifier],
                    serOk, info, p.subs)
    ELSE Outcome(handler, p.status, NoRecord, 0, info, p.subs, FALSE)

handleOutgoingSubOrUnsub(handler, kind, subscribe, buf, g, serOk, info, subs) ==
    handleOutgoingSubOrUnsubParsed(handler, kind,
                                   parseSubscribe(buf, g, subscribe, subs),
                                   serOk, info, subs)

handleOutgoingSubscribe(buf, g, serOk, info, subs) ==
    handleOutgoingSubOrUnsub("handleOutgoingSubscribe", "subscribe", TRUE,
                             buf, g, serOk, info, subs)

handleOutgoingUnsubscribe(buf, g, serOk, info, subs) ==
    handleOutgoingSubOrUnsub("handleOutgoingUnsubscribe", "unsubscribe", FALSE,
                             buf, g, serOk, info, subs)

handleOutgoingPingReq(serOk, info, subs) ==
    Serialized("handleOutgoingPingReq", [kind |-> "pingreq"], serOk, info, subs)

handleOutgoingDisconnect(serOk, info, subs) ==
    Serialized("handleOutgoingDisconnect", [kind |-> "disconnect"], serOk, info, subs)

-----------------------------------------------------------------------------
(* The environment of one outbound call: what the memory behind the buffer *)
(* holds, whether the allocator, the BLE serializer and the channel do     *)
(* their work, and whether the build's configASSERT checks its argument.   *)
(* At most one of them fails in a call.                                    *)

Garbage == {0, 170}

FairWeather ==
    [g |-> 0, allocOk |-> TRUE, serOk |-> TRUE, chanOk |-> TRUE, asserts |-> TRUE]

Environments ==
    { FairWeather,
      [FairWeather EXCEPT !.asserts = FALSE],
      [FairWeather EXCEPT !.g = 170],
      [FairWeather EXCEPT !.g = 170, !.asserts = FALSE],
      [FairWeather EXCEPT !.allocOk = FALSE],
      [FairWeather EXCEPT !.serOk = FALSE],
      [FairWeather EXCEPT !.chanOk = FALSE] }

-----------------------------------------------------------------------------
(* Outbound dispatcher.                                                    *)

PacketTypeOf(buf, g) == Rd(buf, g, 0) - (Rd(buf, g, 0) % 16)

QoS2Types == {CLIENT_PACKET_TYPE_PUBREC, CLIENT_PACKET_TYPE_PUBREL,
              CLIENT_PACKET_TYPE_PUBCOMP}

\* the QoS 2 branch with its status left at MQTTSuccess
QoS2Unsupported_StatusKept(info, subs) ==
    Outcome("QoS2", "MQTTSuccess", NoRecord, 0, info, subs, FALSE)

\* case CLIENT_PACKET_TYPE_PUBREC, PUBREL, PUBCOMP
QoS2Unsupported(info, subs) ==
    Outcome("QoS2", "MQTTSendFailed", NoRecord, 0, info, subs, FALSE)

\* the default branch with its status left at MQTTSuccess
ServerOnlyPacket_StatusKept(info, subs) ==
    Outcome("default", "MQTTSuccess", NoRecord, 0, info, subs, FALSE)

\* default: a server to client only packet
ServerOnlyPacket(info, subs) ==
    Outcome("default", "MQTTBadParameter", NoRecord, 0, info, subs, FALSE)

\* the switch of IotBleMqttTransportSend on the packet type
DispatchByType(buf, g, allocOk, serOk, asserts, info, subs) ==
    LET packetType == PacketTypeOf(buf, g)
    IN CASE packetType = CLIENT_PACKET_TYPE_CONNECT ->
              handleOutgoingConnect(buf, g, serOk, info, subs)
         [] packetType = CLIENT_PACKET_TYPE_PUBLISH ->
              handleOutgoingPublish(info, buf, g, Len(buf), allocOk, serOk, asserts, subs)
         [] packetType = CLIENT_PACKET_TYPE_PUBACK ->
              handleOutgoingPuback(buf, g, serOk, info, subs)
         [] packetType = CLIENT_PACKET_TYPE_SUBSCRIBE ->
              handleOutgoingSubscribe(buf, g, serOk, info, subs)
         [] packetType = CLIENT_PACKET_TYPE_UNSUBSCRIBE ->
              handleOutgoingUnsubscribe(buf, g, serOk, info, subs)
         [] packetType = CLIENT_PACKET_TYPE_PINGREQ ->
              handleOutgoingPingReq(serOk, info, subs)
         [] packetType = CLIENT_PACKET_TYPE_DISCONNECT ->
              handleOutgoingDisconnect(serOk, info, subs)
         [] packetType \in QoS2Types -> QoS2Unsupported(info, subs)
         [] OTHER -> ServerOnlyPacket(info, subs)

\* the dispatcher switching on the packet type before looking at the slot
Dispatch_TypeFirst(buf, g, allocOk, serOk, asserts, info, subs) ==
    IF info.pending /\ PacketTypeOf(buf, g) = CLIENT_PACKET_TYPE_PUBLISH
    THEN handleOutgoingPublish(info, buf, g, Len(buf), allocOk, serOk, asserts, subs)
    ELSE DispatchByType(buf, g, allocOk, serOk, asserts, info, subs)

Dispatch(buf, g, allocOk, serOk, asserts, info, subs) ==
    IF info.pending
    THEN handleOutgoingPublish(info, buf, g, Len(buf), allocOk, serOk, asserts, subs)
    ELSE DispatchByType(buf, g, allocOk, serOk, asserts, info, subs)

\* MQTTBytesWritten reporting the bytes only when a frame went out
BytesWritten_OnlyWhenSent(status, packetSize, bytesSend, bytesToWrite) ==
    IF status = "MQTTSuccess" /\ packetSize > 0 /\ bytesSend = packetSize
    THEN bytesToWrite
    ELSE 0

\* the value IotBleMqttTransportSend returns, MQTTBytesWritten
BytesWritten(status, packetSize, bytesSend, bytesToWrite) ==
    IF status = "MQTTSuccess"
    THEN IF packetSize > 0 /\ bytesSend # packetSize THEN 0 ELSE bytesToWrite
    ELSE 0

NoSend ==
    [called |-> FALSE, returned |-> FALSE, buf |-> <<>>, env |-> FairWeather,
     wasPending |-> FALSE, handler |-> "none", status |-> "none",
     handed |-> NoRecord, packetSize |-> 0, sendCalls |-> 0, bytesSend |-> 0,
     frame |-> <<>>, topic |-> <<>>, live |-> 0, ret |-> 0]

\* what happens in a call to the frame of the BLE serializer, in order: the
\* serializer returning it, IotBleDataTransfer_Send taking it, and frees
\* calls of IotMqtt_FreeMessage on it
FrameEvents(o, sends, frees) ==
    (IF o.handed # NoRecord /\ o.status = "MQTTSuccess"
     THEN <<"serialized">> ELSE <<>>)
    \o (IF sends THEN <<"send">> ELSE <<>>)
    \o [k \in 1..frees |-> "free"]

\* the events of a call that parses a PUBLISH and releases no topic copy
TopicEvents_NeverFreed(info, o, allocOk) ==
    (IF o.handler = "handleOutgoingPublish" /\ ~info.pending
          /\ o.status # "Asserted" /\ allocOk
     THEN <<"malloc">> ELSE <<>>)
    \o (IF o.handler = "handleOutgoingPublish" /\ o.handed # NoRecord
        THEN <<"serialize">> ELSE <<>>)

\* what happens in a call to the heap copy of a PUBLISH topic, in order:
\* parsePublish allocating it (the slot info was not pending and the
\* allocator did its work), IotBleMqtt_SerializePublish reading the
\* publish record, and handleOutgoingPublish releasing the copy behind it
\* if the record holds one
TopicEvents(info, o, allocOk) ==
    (IF o.handler = "handleOutgoingPublish" /\ ~info.pending
          /\ o.status # "Asserted" /\ allocOk
     THEN <<"malloc">> ELSE <<>>)
    \o (IF o.handler = "handleOutgoingPublish" /\ o.handed # NoRecord
        THEN <<"serialize">>
             \o (IF ~o.handed.info.pTopicName.null THEN <<"free">> ELSE <<>>)
        ELSE <<>>)

\* the number of times event occurs in events
RECURSIVE Count(_, _)
Count(events, event) ==
    IF events = <<>> THEN 0
    ELSE (IF Head(events) = event THEN 1 ELSE 0) + Count(Tail(events), event)

\* IotBleMqttTransportSend( pContext, buf, bytesToWrite ) with
\* bytesToWrite = Len(buf), in the environment env; live counts the topic
\* copies allocated and not released so far
TransportSendLog(buf, env, o, sends, bytesSend, frees) ==
    /\ lastSend' =
         [called |-> TRUE, returned |-> ~o.halt,
          buf |-> buf, env |-> env, wasPending |-> publishInfo.pending,
          handler |-> o.handler, status |-> o.status, handed |-> o.handed,
          packetSize |-> o.packetSize,
          sendCalls |-> IF sends THEN 1 ELSE 0,
          bytesSend |-> bytesSend,
          frame |-> FrameEvents(o, sends, frees),
          topic |-> TopicEvents(publishInfo, o, env.allocOk),
          live |-> lastSend.live
                     + Count(TopicEvents(publishInfo, o, env.allocOk), "malloc")
                     - Count(TopicEvents(publishInfo, o, env.allocOk), "free"),
          ret |-> IF o.halt THEN 0
                  ELSE BytesWritten(o.status, o.packetSize, bytesSend, Len(buf))]
    /\ publishInfo' = o.info
    /\ subscriptions' = o.subs
    /\ halted' = o.halt

\* the end of the call sending as many bytes as the client wrote
TransportSendFrame_SendsInput(buf, env, o) ==
    TransportSendLog(buf, env, o,
        o.status = "MQTTSuccess" /\ o.packetSize > 0,
        IF o.status = "MQTTSuccess" /\ o.packetSize > 0
        THEN IotBleDataTransfer_Send(Len(buf), env.chanOk) ELSE 0,
        IF o.status = "MQTTSuccess" /\ o.packetSize > 0 THEN 1 ELSE 0)

\* the end of the call releasing the frame only when the channel took all
\* of it
TransportSendFrame_KeepsShortSent(buf, env, o) ==
    TransportSendLog(buf, env, o,
        o.status = "MQTTSuccess" /\ o.packetSize > 0,
        IF o.status = "MQTTSuccess" /\ o.packetSize > 0
        THEN IotBleDataTransfer_Send(o.packetSize, env.chanOk) ELSE 0,
        IF o.status = "MQTTSuccess" /\ o.packetSize > 0 /\ env.chanOk
        THEN 1 ELSE 0)

\* the end of IotBleMqttTransportSend: o is what the handler left
TransportSendFrame(buf, env, o) ==
    TransportSendLog(buf, env, o,
        o.status = "MQTTSuccess" /\ o.packetSize > 0,
        IF o.status = "MQTTSuccess" /\ o.packetSize > 0
        THEN IotBleDataTransfer_Send(o.packetSize, env.chanOk) ELSE 0,
        IF o.status = "MQTTSuccess" /\ o.packetSize > 0 THEN 1 ELSE 0)

TransportSend(buf, env) ==
    TransportSendFrame(buf, env,
        Dispatch(buf, env.g, env.allocOk, env.serOk, env.asserts,
                 publishInfo, subscriptions))

-----------------------------------------------------------------------------
(* What the MQTT client writes.                                            *)

Topic == <<116>>
PacketId == 258

\* a standard MQTT PUBLISH: flags is the low nibble of the first byte
MkPublish(flags, topic, packetId, payload) ==
    LET withId == (flags \div 2) % 4 > 0
        idBytes == IF withId THEN <<HiByte(packetId), LoByte(packetId)>> ELSE <<>>
        body == <<HiByte(Len(topic)), LoByte(Len(topic))>> \o topic \o idBytes \o payload
    IN <<CLIENT_PACKET_TYPE_PUBLISH + flags>> \o encodeRemainingLengthLoop(Len(body)) \o body

\* the bytes of a PUBLISH packet before its payload
PublishHeaderLength(flags, topic) ==
    1 + 1 + 2 + Len(topic) + (IF (flags \div 2) % 4 > 0 THEN 2 ELSE 0)

PublishFlags == {0, 11}
Payloads == {<<>>, <<80, 0>>}

PublishPackets ==
    {MkPublish(f, Topic, PacketId, pl) : f \in PublishFlags, pl \in Payloads}

\* a PUBLISH written as two buffers: the first ends at or after the end of
\* the header and before the end of the packet
PublishSplits ==
    {<<f, pl, cut>> \in PublishFlags \X Payloads \X (1..12) :
        /\ cut >= PublishHeaderLength(f, Topic)
        /\ cut < Len(MkPublish(f, Topic, PacketId, pl))}

FirstChunk(sp) == SubSeq(MkPublish(sp[1], Topic, PacketId, sp[2]), 1, sp[3])
SecondChunk(sp) == Drop(MkPublish(sp[1], Topic, PacketId, sp[2]), sp[3])

\* PUBLISH packets with every flags nibble: whole, with and without a
\* payload, and written as a header followed by the payload
FlagNibbles == 0..15

PayloadOf(withPayload) == IF withPayload THEN <<80, 0>> ELSE <<>>

PublishOf(flags, withPayload) ==
    MkPublish(flags, Topic, PacketId, PayloadOf(withPayload))

HeaderOf(flags) ==
    SubSeq(PublishOf(flags, TRUE), 1, PublishHeaderLength(flags, Topic))

PublishBuffers ==
    {PublishOf(f, w) : f \in FlagNibbles, w \in BOOLEAN}
    \cup {HeaderOf(f) : f \in FlagNibbles}
    \cup {PayloadOf(TRUE)}

Str(bytes) == <<HiByte(Len(bytes)), LoByte(Len(bytes))>> \o bytes

\* a standard MQTT CONNECT with protocol name "MQTT"
MkConnect(level, connectFlags, keepAlive, fields) ==
    LET body == <<0, 4, 77, 81, 84, 84, level, connectFlags,
                  HiByte(keepAlive), LoByte(keepAlive)>> \o fields
    IN <<CLIENT_PACKET_TYPE_CONNECT>> \o encodeRemainingLengthLoop(Len(body)) \o body

ConnectPackets ==
    { MkConnect(4, 2, 60, Str(<<100, 49>>)),
      MkConnect(3, 2, 60, Str(<<100, 49>>)) }

\* a CONNECT as the client writes it: the optional fields follow the client
\* identifier in the order will topic, will message, user name, password,
\* each present exactly if its flag is set
ConnectFlagsByte(c) ==
    2 + (IF c.reserved THEN 1 ELSE 0) + (IF c.will THEN 4 + 8 + 32 ELSE 0)
      + (IF c.pass THEN 64 ELSE 0) + (IF c.user THEN 128 ELSE 0)

ConnectFields(c) ==
    Str(c.clientId)
    \o (IF c.will THEN Str(c.willTopic) \o Str(c.willPayload) ELSE <<>>)
    \o (IF c.user THEN Str(c.userName) ELSE <<>>)
    \o (IF c.pass THEN Str(c.password) ELSE <<>>)

ConnectOf(c) == MkConnect(c.level, ConnectFlagsByte(c), 60, ConnectFields(c))

\* a client identifier that makes the remaining length of a CONNECT without
\* optional fields 77
LongClientId == [k \in 1..65 |-> 100]

\* what makes a CONNECT a protocol error
LevelFlaw(c) == c.level # 4
ReservedFlaw(c) == c.reserved
ClientIdFlaw(c) == c.clientId = <<>>
WillFlaw(c) == c.will /\ c.willTopic = <<>>
UserNameFlaw(c) == c.user /\ c.userName = <<>>
PasswordFlaw(c) == c.pass /\ c.password = <<>>

Flaws(c) ==
    (IF LevelFlaw(c) THEN 1 ELSE 0) + (IF ReservedFlaw(c) THEN 1 ELSE 0)
    + (IF ClientIdFlaw(c) THEN 1 ELSE 0) + (IF WillFlaw(c) THEN 1 ELSE 0)
    + (IF UserNameFlaw(c) THEN 1 ELSE 0) + (IF PasswordFlaw(c) THEN 1 ELSE 0)

\* the packets written: well-formed ones, ones with a single flaw, and ones
\* with every flaw at once
ConnectChoices ==
    {c \in [level : {3, 4}, reserved : BOOLEAN, will : BOOLEAN, user : BOOLEAN,
            pass : BOOLEAN, clientId : {<<>>, <<100, 49>>, LongClientId},
            willTopic : {<<>>, <<119>>}, willPayload : {<<>>, <<1, 2>>},
            userName : {<<>>, <<117>>}, password : {<<>>, <<112, 113>>}] :
        Flaws(c) <= 1 \/ Flaws(c) = 6}

ConnectBuffers == {ConnectOf(c) : c \in ConnectChoices}

MkSubscribe(packetId, filters) ==
    LET body == <<HiByte(packetId), LoByte(packetId)>> \o filters
    IN <<CLIENT_PACKET_TYPE_SUBSCRIBE + 2>> \o encodeRemainingLengthLoop(Len(body)) \o body

MkUnsubscribe(packetId, filters) ==
    LET body == <<HiByte(packetId), LoByte(packetId)>> \o filters
    IN <<CLIENT_PACKET_TYPE_UNSUBSCRIBE + 2>> \o encodeRemainingLengthLoop(Len(body)) \o body

SubscribePackets ==
    { MkSubscribe(PacketId, Str(<<97>>) \o <<1>>),
      MkSubscribe(PacketId, <<>>),
      MkUnsubscribe(PacketId, Str(<<97>>)) }

\* the topic filters of a SUBSCRIBE or UNSUBSCRIBE as the client writes
\* them: list is a sequence of <<filter, requested QoS byte>>, the QoS byte
\* being written for a SUBSCRIBE only
RECURSIVE FilterBytes(_, _)
FilterBytes(list, subscribe) ==
    IF list = <<>> THEN <<>>
    ELSE Str(Head(list)[1]) \o (IF subscribe THEN <<Head(list)[2]>> ELSE <<>>)
         \o FilterBytes(Tail(list), subscribe)

SubscribeOf(list) == MkSubscribe(PacketId, FilterBytes(list, TRUE))
UnsubscribeOf(list) == MkUnsubscribe(PacketId, FilterBytes(list, FALSE))

\* a filter that makes the remaining length of its packet 128 or more
LongFilter == [k \in 1..125 |-> 98]

QosBytes == {0, 1, 2}

SubscribeLists ==
    {<<<<(<<97>>), q>>>> : q \in QosBytes \cup {253}}
    \cup {<<<<(<<97>>), q1>>, <<(<<98, 99>>), q2>>>> : q1 \in QosBytes, q2 \in QosBytes}
    \cup {<<<<LongFilter, 1>>>>}

UnsubscribeLists ==
    { <<<<(<<97>>), 0>>>>, <<<<(<<97>>), 0>>, <<(<<98, 99>>), 0>>>>,
      <<<<LongFilter, 0>>>> }

\* packets whose filters do not consume the remaining length exactly: a
\* stray byte behind the last filter, a last filter longer than what is
\* left, and no filter at all
ResidualPackets ==
    { MkSubscribe(PacketId, Str(<<97>>) \o <<1>> \o <<0>>),
      MkUnsubscribe(PacketId, Str(<<97>>) \o <<0>>) }

OverrunPackets ==
    { MkSubscribe(PacketId, <<0, 3, 97>>),
      MkUnsubscribe(PacketId, <<0, 3, 97>>) }

EmptyPackets == {MkSubscribe(PacketId, <<>>), MkUnsubscribe(PacketId, <<>>)}

SubscribeBuffers ==
    {SubscribeOf(list) : list \in SubscribeLists}
    \cup {UnsubscribeOf(list) : list \in UnsubscribeLists}
    \cup ResidualPackets \cup OverrunPackets \cup EmptyPackets

\* the filter lengths at which the 16-bit running offset of calculateNumSubs
\* wraps to 0 (65533 with the QoS byte of a SUBSCRIBE, 65534 without), and
\* an ordinary one
ScanLengths == {1, 65533, 65534}

\* buffers for the loops of the parsers: a SUBSCRIBE and an UNSUBSCRIBE of
\* remaining length 5 whose first filter has a length of ScanLengths, a
\* CONNECT with and without the 'M' of the protocol name, and PUBLISH
\* packets with a remaining length of one, three and five bytes.  The
\* remaining length of the filters, 3, is below MaxScan, so a count that
\* has not ended after MaxScan filters has had the same running offset
\* twice and never ends
ScanBuffers ==
    { <<type, 5, 0, 1, HiByte(len), LoByte(len), 0>> :
        type \in {CLIENT_PACKET_TYPE_SUBSCRIBE + 2, CLIENT_PACKET_TYPE_UNSUBSCRIBE + 2},
        len \in ScanLengths }
    \cup { MkConnect(4, 2, 60, Str(<<100>>)),
           <<CLIENT_PACKET_TYPE_CONNECT, 4, 0, 4, 0, 0>> }
    \cup { <<MQTT_PACKET_TYPE_PUBLISH, 3, 0, 1, 116>>,
           <<MQTT_PACKET_TYPE_PUBLISH, 131, 128, 0, 0, 1, 116>>,
           <<MQTT_PACKET_TYPE_PUBLISH, 255, 255, 255, 255, 1>> }

\* lists of one filter up to one filter more than the scratch list holds
RECURSIVE FilterLists(_)
FilterLists(n) ==
    IF n = 0 THEN {<<>>}
    ELSE {<<<<f, 1>>>> \o rest : f \in {<<97>>, <<98, 99>>}, rest \in FilterLists(n - 1)}

OverfullLists ==
    UNION {FilterLists(n) : n \in 1..(MQTT_MAX_SUBS_PER_PACKET + 1)}

OverfullBuffers ==
    {SubscribeOf(list) : list \in OverfullLists}
    \cup {UnsubscribeOf(list) : list \in OverfullLists}

\* PUBLISH packets whose remaining length is smaller than what the topic
\* length, the topic and the packet identifier take: the topic "t" behind a
\* remaining length of 1 or 2, a QoS 1 header without the identifier
UnderDeclaredBuffers ==
    { <<MQTT_PACKET_TYPE_PUBLISH, 1, 0, 1, 116>>,
      <<MQTT_PACKET_TYPE_PUBLISH, 2, 0, 1, 116>>,
      <<MQTT_PACKET_TYPE_PUBLISH + 2, 3, 0, 1, 116>>,
      <<MQTT_PACKET_TYPE_PUBLISH + 3, 4, 0, 1, 116, 1>> }

\* the same headers with a remaining length that covers them, whole and
\* with the payload still to come, and the payload
DeclaredBuffers ==
    { <<MQTT_PACKET_TYPE_PUBLISH, 3, 0, 1, 116>>,
      <<MQTT_PACKET_TYPE_PUBLISH, 4, 0, 1, 116>>,
      <<MQTT_PACKET_TYPE_PUBLISH + 2, 5, 0, 1, 116, 1, 2>>,
      <<MQTT_PACKET_TYPE_PUBLISH + 2, 6, 0, 1, 116, 1, 2, 9>>,
      <<9>> }

ControlPackets ==
    { <<CLIENT_PACKET_TYPE_PUBACK, 2, 1, 2>>,
      <<CLIENT_PACKET_TYPE_PINGREQ, 0>>,
      <<CLIENT_PACKET_TYPE_DISCONNECT, 0>> }

\* the second buffer <<80, 0>> of a split PUBLISH has the PUBREC type too
QoS2Packets ==
    { <<CLIENT_PACKET_TYPE_PUBREL + 2, 2, 1, 2>>,
      <<CLIENT_PACKET_TYPE_PUBCOMP, 2, 1, 2>> }

ServerOnlyPackets ==
    { <<MQTT_PACKET_TYPE_CONNACK, 2, 0, 0>>,
      <<MQTT_PACKET_TYPE_SUBACK, 3, 1, 2, 1>>,
      <<MQTT_PACKET_TYPE_UNSUBACK, 2, 1, 2>>,
      <<MQTT_PACKET_TYPE_PINGRESP, 0>> }

OutboundBuffers ==
    PublishPackets
    \cup {FirstChunk(sp) : sp \in PublishSplits}
    \cup {SecondChunk(sp) : sp \in PublishSplits}
    \cup ConnectPackets \cup SubscribePackets \cup ControlPackets
    \cup QoS2Packets \cup ServerOnlyPackets

-----------------------------------------------------------------------------
(* Stream buffer and channel (FreeRTOS stream buffer, BLE data transfer).  *)

Min(a, b) == IF a <= b THEN a ELSE b

\* xStreamBufferSend: copies what fits of data once the wait for space is
\* over; no reader runs during the call
xStreamBufferSend(queue, data) ==
    queue \o SubSeq(data, 1, Min(Len(data), QueueCap - Len(queue)))

\* xStreamBufferReceive: the bytes returned and the bytes left
xStreamBufferReceive(queue, bytesToRead) ==
    [data |-> SubSeq(queue, 1, Min(bytesToRead, Len(queue))),
     queue |-> Drop(queue, Min(bytesToRead, Len(queue)))]

\* IotBleDataTransfer_Receive( pChannel, NULL, length ): length bytes leave
\* the receive buffer
RECURSIVE IotBleDataTransfer_Receive(_, _)
IotBleDataTransfer_Receive(channel, length) ==
    IF length = 0 \/ channel = <<>> THEN channel
    ELSE IF length >= Head(channel).length
    THEN IotBleDataTransfer_Receive(Tail(channel), length - Head(channel).length)
    ELSE <<[Head(channel) EXCEPT !.length = @ - length]>> \o Tail(channel)

\* IotBleMqtt_Deserialize*: the status and the record the BLE deserializer
\* decodes from the packet in the channel
IotBleMqtt_Deserialize(packet) ==
    [status |-> IF packet.deserOk THEN "MQTTSuccess" ELSE "MQTTBadResponse",
     packetIdentifier |-> packet.packetIdentifier,
     publishInfo |-> packet.publishInfo]

-----------------------------------------------------------------------------
(* Ack / control serializers: [status, bytes written to pBuffer].          *)


transportSerializePingresp(size, asserts) ==
    IF asserts /\ size < SIZE_OF_PING
    THEN [status |-> "Asserted", bytes |-> <<>>]
    ELSE [status |-> "MQTTSuccess", bytes |-> <<MQTT_PACKET_TYPE_PINGRESP, 0>>]

\* transportSerializeAck with the identifier validated for every packet type
transportSerializeAck_AnyTypeChecked(size, asserts, packetType, packetId) ==
    IF asserts /\ size < SIZE_OF_SIMPLE_ACK
    THEN [status |-> "Asserted", bytes |-> <<>>]
    ELSE IF packetId = 0
    THEN [status |-> "MQTTBadParameter", bytes |-> <<>>]
    ELSE [status |-> "MQTTSuccess",
          bytes |-> <<packetType, 2, HiByte(packetId), LoByte(packetId)>>]

transportSerializeAck(size, asserts, packetType, packetId) ==
    IF asserts /\ size < SIZE_OF_SIMPLE_ACK
    THEN [status |-> "Asserted", bytes |-> <<>>]
    ELSE IF packetId = 0 /\ packetType = MQTT_PACKET_TYPE_PUBACK
    THEN [status |-> "MQTTBadParameter", bytes |-> <<>>]
    ELSE [status |-> "MQTTSuccess",
          bytes |-> <<packetType, 2, HiByte(packetId), LoByte(packetId)>>]

\* transportSerializeSuback granting QoS 0
transportSerializeSuback_GrantsQos0(size, asserts, packetType, packetId) ==
    IF asserts /\ size < SIZE_OF_SUB_ACK
    THEN [status |-> "Asserted", bytes |-> <<>>]
    ELSE IF packetId = 0
    THEN [status |-> "MQTTBadParameter", bytes |-> <<>>]
    ELSE [status |-> "MQTTSuccess",
          bytes |-> <<packetType, 3, HiByte(packetId), LoByte(packetId), 0>>]

transportSerializeSuback(size, asserts, packetType, packetId) ==
    IF asserts /\ size < SIZE_OF_SUB_ACK
    THEN [status |-> "Asserted", bytes |-> <<>>]
    ELSE IF packetId = 0
    THEN [status |-> "MQTTBadParameter", bytes |-> <<>>]
    ELSE [status |-> "MQTTSuccess",
          bytes |-> <<packetType, 3, HiByte(packetId), LoByte(packetId), 1>>]

\* flags with the bits of mask set if cond holds
SetFlag(flags, cond, mask) == IF cond THEN OrMask(flags, mask) ELSE flags

\* the first byte transportSerializePublish writes
PublishFirstByte(pPublishConfig) ==
    SetFlag(SetFlag(SetFlag(SetFlag(MQTT_PACKET_TYPE_PUBLISH,
                                    pPublishConfig.dup, PUBLISH_FLAG_DUP_MASK),
                            pPublishConfig.retain, PUBLISH_FLAG_RETAIN_MASK),
                    pPublishConfig.qos = 1, PUBLISH_FLAG_QOS1_MASK),
            pPublishConfig.qos = 2, PUBLISH_FLAG_QOS2_MASK)

\* the packet identifier goes to the queue for QoS 1 and 2 only
SendPacketId(queue, qos, idBytes) ==
    IF qos >= 1 THEN xStreamBufferSend(queue, idBytes) ELSE queue

\* the five writes of transportSerializePublish to the stream buffer
SendPublish(streamBuf, pPublishConfig, header, topicLen, idBytes) ==
    [status |-> "MQTTSuccess",
     queue |->
        xStreamBufferSend(
            SendPacketId(
                xStreamBufferSend(
                    xStreamBufferSend(xStreamBufferSend(streamBuf, header),
                                      topicLen),
                    pPublishConfig.pTopicName),
                pPublishConfig.qos, idBytes),
            pPublishConfig.pPayload),
     requested |-> header \o topicLen \o pPublishConfig.pTopicName
                   \o (IF pPublishConfig.qos >= 1 THEN idBytes ELSE <<>>)
                   \o pPublishConfig.pPayload]

\* transportSerializePublish: [status, queue, requested]; requested are the
\* bytes it asked the stream buffer to take
transportSerializePublish(streamBuf, pPublishConfig, packetId) ==
    IF pPublishConfig.qos = 2
    THEN [status |-> "MQTTBadParameter", queue |-> streamBuf, requested |-> <<>>]
    ELSE IF pPublishConfig.qos = 1 /\ packetId = 0
    THEN [status |-> "MQTTBadParameter", queue |-> streamBuf, requested |-> <<>>]
    ELSE SendPublish(streamBuf, pPublishConfig,
             <<PublishFirstByte(pPublishConfig)>>
               \o encodeRemainingLength(2 + pPublishConfig.topicNameLength
                                          + pPublishConfig.payloadLength
                                          + (IF pPublishConfig.qos > 0 THEN 2 ELSE 0)),
             <<HiByte(pPublishConfig.topicNameLength),
               LoByte(pPublishConfig.topicNameLength)>>,
             <<HiByte(packetId), LoByte(packetId)>>)

-----------------------------------------------------------------------------
(* Inbound handlers: [status, queue, requested].                           *)

Incoming(status, queue, requested) ==
    [status |-> status, queue |-> queue, requested |-> requested]

\* deserialize, serialize the ack into the shared buffer, push size bytes
PushAck(streamBuf, deserStatus, ack, size) ==
    IF deserStatus # "MQTTSuccess" THEN Incoming(deserStatus, streamBuf, <<>>)
    ELSE IF ack.status # "MQTTSuccess" THEN Incoming(ack.status, streamBuf, <<>>)
    ELSE Incoming("MQTTSuccess", xStreamBufferSend(streamBuf, ack.bytes),
                  SubSeq(ack.bytes, 1, size))

handleIncomingConnack(streamBuf, packet, size, asserts) ==
    PushAck(streamBuf, IotBleMqtt_Deserialize(packet).status,
            transportSerializeAck(size, asserts, packet.type, 0),
            SIZE_OF_SIMPLE_ACK)

\* handleIncomingPuback / Unsuback once the BLE deserializer has returned d
handleIncomingAck(streamBuf, packet, size, asserts, d) ==
    PushAck(streamBuf, d.status,
            transportSerializeAck(size, asserts, packet.type, d.packetIdentifier),
            SIZE_OF_SIMPLE_ACK)

handleIncomingPuback(streamBuf, packet, size, asserts) ==
    handleIncomingAck(streamBuf, packet, size, asserts, IotBleMqtt_Deserialize(packet))

\* handleIncomingPublish once the BLE deserializer has returned d
handleIncomingPublishDeserialized(streamBuf, d) ==
    IF d.status # "MQTTSuccess" THEN Incoming(d.status, streamBuf, <<>>)
    ELSE transportSerializePublish(streamBuf, d.publishInfo, d.packetIdentifier)

handleIncomingPublish(streamBuf, packet, size, asserts) ==
    handleIncomingPublishDeserialized(streamBuf, IotBleMqtt_Deserialize(packet))

\* handleIncomingSuback once the BLE deserializer has returned d
handleIncomingSubackDeserialized(streamBuf, packet, size, asserts, d) ==
    PushAck(streamBuf, d.status,
            transportSerializeSuback(size, asserts, packet.type, d.packetIdentifier),
            SIZE_OF_SUB_ACK)

handleIncomingSuback(streamBuf, packet, size, asserts) ==
    handleIncomingSubackDeserialized(streamBuf, packet, size, asserts,
                                     IotBleMqtt_Deserialize(packet))

handleIncomingUnsuback(streamBuf, packet, size, asserts) ==
    handleIncomingAck(streamBuf, packet, size, asserts, IotBleMqtt_Deserialize(packet))

handleIncomingPingresp(streamBuf, packet, size, asserts) ==
    PushAck(streamBuf, IotBleMqtt_Deserialize(packet).status,
            transportSerializePingresp(size, asserts), SIZE_OF_PING)

-----------------------------------------------------------------------------
(* Inbound dispatcher.                                                     *)

\* the switch of IotBleMqttTransportAcceptData on packet.type
AcceptByType(streamBuf, packet, asserts) ==
    CASE packet.type = MQTT_PACKET_TYPE_CONNACK ->
           handleIncomingConnack(streamBuf, packet, SIZE_OF_SUB_ACK, asserts)
      [] packet.type = MQTT_PACKET_TYPE_PUBLISH ->
           handleIncomingPublish(streamBuf, packet, SIZE_OF_SUB_ACK, asserts)
      [] packet.type = MQTT_PACKET_TYPE_PUBACK ->
           handleIncomingPuback(streamBuf, packet, SIZE_OF_SUB_ACK, asserts)
      [] packet.type = MQTT_PACKET_TYPE_SUBACK ->
           handleIncomingSuback(streamBuf, packet, SIZE_OF_SUB_ACK, asserts)
      [] packet.type = MQTT_PACKET_TYPE_UNSUBACK ->
           handleIncomingUnsuback(streamBuf, packet, SIZE_OF_SUB_ACK, asserts)
      [] packet.type = MQTT_PACKET_TYPE_PINGRESP ->
           handleIncomingPingresp(streamBuf, packet, SIZE_OF_SUB_ACK, asserts)
      [] packet.type \in {MQTT_PACKET_TYPE_PUBREC, MQTT_PACKET_TYPE_PUBREL,
                          MQTT_PACKET_TYPE_PUBCOMP} ->
           Incoming("MQTTRecvFailed", streamBuf, <<>>)
      [] OTHER -> Incoming("MQTTBadParameter", streamBuf, <<>>)

\* what IotBleMqttTransportAcceptData returns and what it did: r is what the
\* handler returned, flushes the lengths passed to IotBleDataTransfer_Receive
Accepted(r, channel, packet, flushes) ==
    [status |-> r.status, channel |-> channel, queue |-> r.queue,
     type |-> packet.type, peeked |-> packet.length,
     flushes |-> flushes, requested |-> r.requested]

\* the flush of length bytes at the end of IotBleMqttTransportAcceptData
FlushOnSuccess(r, channel, packet, length) ==
    IF r.status # "MQTTSuccess"
    THEN Accepted(r, channel, packet, <<>>)
    ELSE Accepted(r, IotBleDataTransfer_Receive(channel, length), packet,
                  <<length>>)

\* the accept path flushing the channel whatever the status
IotBleMqttTransportAcceptData_FlushAlways(channel, streamBuf, asserts) ==
    Accepted(AcceptByType(streamBuf, Head(channel), asserts),
             IotBleDataTransfer_Receive(channel, Head(channel).length),
             Head(channel), <<Head(channel).length>>)

\* the accept path flushing as many bytes as the queue took
IotBleMqttTransportAcceptData_FlushQueued(channel, streamBuf, asserts) ==
    FlushOnSuccess(AcceptByType(streamBuf, Head(channel), asserts), channel,
                   Head(channel),
                   Len(AcceptByType(streamBuf, Head(channel), asserts).queue)
                     - Len(streamBuf))

\* IotBleMqttTransportAcceptData: [status, channel, queue] and what it did:
\* the length it peeked, the lengths it passed to IotBleDataTransfer_Receive
\* and the bytes it asked the stream buffer to take
IotBleMqttTransportAcceptData(channel, streamBuf, asserts) ==
    FlushOnSuccess(AcceptByType(streamBuf, Head(channel), asserts), channel,
                   Head(channel), Head(channel).length)

\* the bytes waiting in the channel's receive buffer
RECURSIVE ChannelBytes(_)
ChannelBytes(channel) ==
    IF channel = <<>> THEN 0 ELSE Head(channel).length + ChannelBytes(Tail(channel))

\* the publish record of a packet that is not a PUBLISH
NoPublish ==
    [qos |-> 0, dup |-> FALSE, retain |-> FALSE, topicNameLength |-> 0,
     pTopicName |-> <<>>, payloadLength |-> 0, pPayload |-> <<>>]

\* the log of a call: its status, the type and length it peeked, the
\* identifier and the publish record the BLE deserializer reads from the
\* packet, the number of bytes queued when the call began, the lengths
\* it passed to IotBleDataTransfer_Receive, the bytes it asked the stream
\* buffer to take, and what the call changed: the bytes that left the
\* channel (consumed), whether the bytes queued before are still the head of
\* the queue (kept), and the bytes behind them (appended)
NoAccept ==
    [called |-> FALSE, status |-> "none", type |-> 0, peeked |-> 0,
     packetIdentifier |-> 0, publishInfo |-> NoPublish, queued |-> 0,
     flushes |-> <<>>, requested |-> <<>>, consumed |-> 0, kept |-> TRUE,
     appended |-> <<>>]

AcceptLog(a, channel, streamBuf) ==
    [called |-> TRUE, status |-> a.status, type |-> a.type,
     peeked |-> a.peeked,
     packetIdentifier |-> IotBleMqtt_Deserialize(Head(channel)).packetIdentifier,
     publishInfo |-> IotBleMqtt_Deserialize(Head(channel)).publishInfo,
     queued |-> Len(streamBuf),
     flushes |-> a.flushes, requested |-> a.requested,
     consumed |-> ChannelBytes(channel) - ChannelBytes(a.channel),
     kept |-> /\ Len(a.queue) >= Len(streamBuf)
              /\ SubSeq(a.queue, 1, Len(streamBuf)) = streamBuf,
     appended |-> Drop(a.queue, Len(streamBuf))]

-----------------------------------------------------------------------------
(* What the peer sends: the packets that arrive in the channel.            *)

\* a BLE-encoded packet of `length` bytes in the receive buffer
RxPacket(type, length, deserOk, packetId, publish) ==
    [type |-> type, length |-> length, deserOk |-> deserOk,
     packetIdentifier |-> packetId, publishInfo |-> publish]

RxPublish(qos, dup, retain, topic, payload) ==
    [qos |-> qos, dup |-> dup, retain |-> retain, topicNameLength |-> Len(topic),
     pTopicName |-> topic, payloadLength |-> Len(payload), pPayload |-> payload]

QoS2RxTypes == {MQTT_PACKET_TYPE_PUBREC, MQTT_PACKET_TYPE_PUBREL, MQTT_PACKET_TYPE_PUBCOMP}

InboundPackets ==
    {RxPacket(t, 3, TRUE, id, NoPublish) :
        t \in {MQTT_PACKET_TYPE_PUBACK, MQTT_PACKET_TYPE_SUBACK}, id \in {0, 7}}
    \cup {RxPacket(t, 3, FALSE, 7, NoPublish) :
            t \in {MQTT_PACKET_TYPE_CONNACK, MQTT_PACKET_TYPE_SUBACK}}
    \cup {RxPacket(MQTT_PACKET_TYPE_UNSUBACK, 3, TRUE, 0, NoPublish),
          RxPacket(MQTT_PACKET_TYPE_CONNACK, 9, TRUE, 0, NoPublish),
          RxPacket(MQTT_PACKET_TYPE_PINGRESP, 1, TRUE, 0, NoPublish)}
    \cup {RxPacket(MQTT_PACKET_TYPE_PUBLISH, 9, TRUE, 0,
                   RxPublish(q, FALSE, TRUE, Topic, <<9>>)) : q \in {0, 1}}
    \cup {RxPacket(MQTT_PACKET_TYPE_PUBLISH, 9, TRUE, 7,
                   RxPublish(q, TRUE, FALSE, Topic, <<9>>)) : q \in {1, 2}}
    \cup {RxPacket(MQTT_PACKET_TYPE_PUBLISH, 9, FALSE, 7, NoPublish)}
    \cup {RxPacket(t, 3, TRUE, 7, NoPublish) :
            t \in QoS2RxTypes \cup {CLIENT_PACKET_TYPE_CONNECT}}

\* the sizes the client reads with
ReadSizes == {4, QueueCap}

-----------------------------------------------------------------------------
(* The varint codec on its own: encode a length, decode the bytes written. *)

VarintBoundaries ==
    {127, 128, 16383, 16384, 2097151, 2097152, MAX_REMAINING_LENGTH}

VarintInputs ==
    (0..MaxSmallLength)
    \cup VarintBoundaries
    \cup {b - 1 : b \in VarintBoundaries}
    \cup {b + 1 : b \in VarintBoundaries \ {MAX_REMAINING_LENGTH}}

\* the length bytes of a packet the client wrote, whatever they are: up to
\* five bytes, each with the continuation bit clear or set and all or none
\* of its data bits set
LengthBytes == {0, 127, 128, 255}

RECURSIVE ByteStrings(_)
ByteStrings(n) ==
    IF n = 0 THEN {<<>>}
    ELSE {<<b>> \o s : b \in LengthBytes, s \in ByteStrings(n - 1)}

RawLengths == UNION {ByteStrings(n) : n \in 1..(MAX_ENCODE_LENGTH + 1)}

ReceiveLength ==
    \E bytes \in RawLengths :
        /\ rl' = [phase |-> "received", n |-> 0, bytes |-> bytes,
                  value |-> 0, consumed |-> 0]
        /\ UNCHANGED <<outVars, inVars, halted, ser, fifo>>

DecodeReceived ==
    /\ rl.phase = "received"
    /\ \E g \in Garbage :
          LET d == getRemainingLength(rl.bytes, g)
          IN rl' = [rl EXCEPT !.phase = "parsed", !.value = d[1],
                                !.consumed = d[2]]
    /\ UNCHANGED <<outVars, inVars, halted, ser, fifo>>

RlIdle == [phase |-> "idle", n |-> 0, bytes |-> <<>>, value |-> 0, consumed |-> 0]

EncodeLength ==
    \E n \in VarintInputs :
        /\ rl' = [phase |-> "encoded", n |-> n,
                  bytes |-> encodeRemainingLength(n),
                  value |-> 0, consumed |-> 0]
        /\ UNCHANGED <<outVars, inVars, halted, ser, fifo>>

DecodeLength ==
    /\ rl.phase = "encoded"
    /\ \E g \in Garbage :
          LET d == getRemainingLength(rl.bytes, g)
          IN rl' = [rl EXCEPT !.phase = "decoded", !.value = d[1],
                                !.consumed = d[2]]
    /\ UNCHANGED <<outVars, inVars, halted, ser, fifo>>

-----------------------------------------------------------------------------
(* The state machine.                                                      *)

ZeroSubscriptions == [k \in 1..MQTT_MAX_SUBS_PER_PACKET |-> ZeroSubscription]

\* The ack and control serializers called on their own: every destination
\* size around the three fixed sizes, with configASSERT compiled in or out.
MaxAckBuffer == 6

AckBufferSizes == 0..MaxAckBuffer

AckPacketIds == {0, 1, 7, 258, 65535}

SimpleAckTypes ==
    {MQTT_PACKET_TYPE_CONNACK, MQTT_PACKET_TYPE_PUBACK,
     MQTT_PACKET_TYPE_UNSUBACK}

NoSerialize ==
    [fn |-> "none", size |-> 0, asserts |-> FALSE, packetType |-> 0,
     packetId |-> 0, returned |-> FALSE, status |-> "none", bytes |-> <<>>,
     overrun |-> 0]

\* the call and its outcome r: a failed configASSERT does not return.  With
\* configASSERT compiled out, bytes written behind a shorter destination
\* either land in the memory that follows it (overrun counts them) or
\* fault, and then the call does not return either.
SerializerCall(fn, size, asserts, packetType, packetId, r) ==
    /\ \E fault \in IF Len(r.bytes) > size THEN BOOLEAN ELSE {FALSE} :
          /\ ser' = [fn |-> fn, size |-> size, asserts |-> asserts,
                     packetType |-> packetType, packetId |-> packetId,
                     returned |-> r.status # "Asserted" /\ ~fault,
                     status |-> IF fault THEN "Fault" ELSE r.status,
                     bytes |-> r.bytes,
                     overrun |-> IF Len(r.bytes) > size
                                 THEN Len(r.bytes) - size ELSE 0]
          /\ halted' = (r.status = "Asserted" \/ fault)
    /\ UNCHANGED <<outVars, inVars, rl, fifo>>

SerializeAck ==
    /\ ~halted
    /\ \E size \in AckBufferSizes, asserts \in BOOLEAN,
          packetType \in SimpleAckTypes, packetId \in AckPacketIds :
          SerializerCall("transportSerializeAck", size, asserts, packetType,
                         packetId,
                         transportSerializeAck(size, asserts, packetType,
                                               packetId))

SerializeSuback ==
    /\ ~halted
    /\ \E size \in AckBufferSizes, asserts \in BOOLEAN,
          packetId \in AckPacketIds :
          SerializerCall("transportSerializeSuback", size, asserts,
                         MQTT_PACKET_TYPE_SUBACK, packetId,
                         transportSerializeSuback(size, asserts,
                                                  MQTT_PACKET_TYPE_SUBACK,
                                                  packetId))

SerializePingresp ==
    /\ ~halted
    /\ \E size \in AckBufferSizes, asserts \in BOOLEAN :
          SerializerCall("transportSerializePingresp", size, asserts,
                         MQTT_PACKET_TYPE_PINGRESP, 0,
                         transportSerializePingresp(size, asserts))

\* The byte queue between its two tasks.  The callback's task dispatches a
\* packet and makes the writes of its handler one xStreamBufferSend at a
\* time; the client's task reads between any two of them.
MaxDispatches == 2

NoRead ==
    [called |-> FALSE, bytesToRead |-> 0, data |-> <<>>, wasEmpty |-> FALSE,
     during |-> FALSE]

NoFifo ==
    [pending |-> <<>>, dispatched |-> 0, accepted |-> <<>>, read |-> <<>>,
     last |-> NoRead]

\* the byte strings transportSerializePublish passes to xStreamBufferSend,
\* in the order of its calls
transportSerializePublishWrites(pPublishConfig, packetId) ==
    IF pPublishConfig.qos = 2 \/ (pPublishConfig.qos = 1 /\ packetId = 0)
    THEN <<>>
    ELSE << <<PublishFirstByte(pPublishConfig)>>
              \o encodeRemainingLength(2 + pPublishConfig.topicNameLength
                                         + pPublishConfig.payloadLength
                                         + (IF pPublishConfig.qos > 0 THEN 2 ELSE 0)),
            <<HiByte(pPublishConfig.topicNameLength),
              LoByte(pPublishConfig.topicNameLength)>>,
            pPublishConfig.pTopicName >>
         \o (IF pPublishConfig.qos >= 1
             THEN << <<HiByte(packetId), LoByte(packetId)>> >> ELSE <<>>)
         \o << pPublishConfig.pPayload >>

\* the writes of an ack handler that returned r: one, of the whole ack
AckWrites(r) == IF r.status = "MQTTSuccess" THEN <<r.requested>> ELSE <<>>

\* the writes IotBleMqttTransportAcceptData makes for a packet
QueueWrites(packet) ==
    IF packet.type = MQTT_PACKET_TYPE_PUBLISH
    THEN IF IotBleMqtt_Deserialize(packet).status = "MQTTSuccess"
         THEN transportSerializePublishWrites(packet.publishInfo,
                                              packet.packetIdentifier)
         ELSE <<>>
    ELSE AckWrites(AcceptByType(<<>>, packet, TRUE))

FifoPackets ==
    { RxPacket(MQTT_PACKET_TYPE_SUBACK, 3, TRUE, 258, NoPublish),
      RxPacket(MQTT_PACKET_TYPE_PUBACK, 3, TRUE, 0, NoPublish),
      RxPacket(MQTT_PACKET_TYPE_PUBLISH, 9, TRUE, 7,
               RxPublish(1, TRUE, FALSE, Topic, <<9>>)),
      RxPacket(MQTT_PACKET_TYPE_PUBLISH, 9, TRUE, 0,
               RxPublish(0, FALSE, TRUE, Topic, <<9>>)) }

DispatchBegin ==
    /\ ~halted
    /\ fifo.pending = <<>>
    /\ fifo.dispatched < MaxDispatches
    /\ \E packet \in FifoPackets :
          fifo' = [fifo EXCEPT !.pending = QueueWrites(packet),
                               !.dispatched = @ + 1]
    /\ UNCHANGED <<outVars, inVars, halted, rl, ser>>

\* the queue is q after the write
DispatchPushed(q) ==
    /\ streamBuffer' = q
    /\ fifo' = [fifo EXCEPT !.pending = Tail(@),
                            !.accepted = @ \o Drop(q, Len(streamBuffer))]

DispatchPush ==
    /\ fifo.pending # <<>>
    /\ DispatchPushed(xStreamBufferSend(streamBuffer, Head(fifo.pending)))
    /\ UNCHANGED <<outVars, rxChannel, lastAccept, halted, rl, ser>>

\* the read asking the queue for one byte more than the caller
TransportReceive_OneMore(queue, bytesToRead) ==
    xStreamBufferReceive(queue, bytesToRead + 1)

\* IotBleMqttTransportReceive( pContext, buf, bytesToRead ): the bytes
\* returned and the bytes left
TransportReceive(queue, bytesToRead) == xStreamBufferReceive(queue, bytesToRead)

\* the read returned r
ReceiveReturned(bytesToRead, r) ==
    /\ streamBuffer' = r.queue
    /\ fifo' = [fifo EXCEPT
                  !.read = @ \o r.data,
                  !.last = [called |-> TRUE, bytesToRead |-> bytesToRead,
                            data |-> r.data, wasEmpty |-> streamBuffer = <<>>,
                            during |-> fifo.pending # <<>>]]

ReceiveBetween ==
    /\ ~halted
    /\ fifo.dispatched > 0
    /\ \E bytesToRead \in ReadSizes :
          ReceiveReturned(bytesToRead, TransportReceive(streamBuffer, bytesToRead))
    /\ UNCHANGED <<outVars, rxChannel, lastAccept, halted, rl, ser>>

Init ==
    /\ publishInfo = ZeroPublishInfo
    /\ subscriptions = ZeroSubscriptions
    /\ halted = FALSE
    /\ lastSend = NoSend
    /\ rxChannel = <<>>
    /\ streamBuffer = <<>>
    /\ lastAccept = NoAccept
    /\ rl = RlIdle
    /\ ser = NoSerialize
    /\ fifo = NoFifo

SendFrom(buffers) ==
    /\ ~halted
    /\ \E buf \in buffers, env \in Environments :
          TransportSend(buf, env)
    /\ UNCHANGED <<inVars, rl, ser, fifo>>

IotBleMqttTransportSend == SendFrom(OutboundBuffers)

\* _callback on IOT_BLE_DATA_TRANSFER_CHANNEL_DATA_RECEIVED: a packet of
\* the peer has arrived in the receive buffer (arrival), or the event fires
\* again for what is still there
DataReceivedAccepted(channel, asserts, a) ==
    /\ rxChannel' = a.channel
    /\ streamBuffer' = a.queue
    /\ lastAccept' = AcceptLog(a, channel, streamBuffer)
    /\ halted' = (asserts /\ a.status # "MQTTSuccess")

DataReceivedOn(channel, asserts) ==
    /\ Len(channel) \in 1..MaxRx
    /\ DataReceivedAccepted(channel, asserts,
           IotBleMqttTransportAcceptData(channel, streamBuffer, asserts))

\* the callback with a dispatch that clears the reassembly slot
DataReceived_ClearsSlot(arrivals) ==
    /\ ~halted
    /\ \E arrival \in arrivals \cup {<<>>}, asserts \in BOOLEAN :
          DataReceivedOn(IF arrival = <<>> THEN rxChannel
                         ELSE Append(rxChannel, arrival[1]),
                         asserts)
    /\ publishInfo' = ZeroPublishInfo
    /\ UNCHANGED <<subscriptions, lastSend, rl, ser, fifo>>

DataReceived(arrivals) ==
    /\ ~halted
    /\ \E arrival \in arrivals \cup {<<>>}, asserts \in BOOLEAN :
          DataReceivedOn(IF arrival = <<>> THEN rxChannel
                         ELSE Append(rxChannel, arrival[1]),
                         asserts)
    /\ UNCHANGED <<outVars, rl, ser, fifo>>

Callback == DataReceived({<<p>> : p \in InboundPackets})

\* IotBleMqttTransportReceive( pContext, buf, bytesToRead )
IotBleMqttTransportReceive ==
    /\ ~halted
    /\ \E bytesToRead \in ReadSizes :
          streamBuffer' = xStreamBufferReceive(streamBuffer, bytesToRead).queue
    /\ UNCHANGED <<outVars, rxChannel, lastAccept, halted, rl, ser, fifo>>

NextOut == IotBleMqttTransportSend

NextIn == Callback \/ IotBleMqttTransportReceive

SpecIn == Init /\ [][NextIn]_vars

\* both directions at once, the client task and the BLE stack's notification
\* context interleaved, on the packets that the QoS 2 rules are about
HeaderOnlySplits ==
    {sp \in PublishSplits : sp[1] = 0 /\ sp[3] = PublishHeaderLength(sp[1], Topic)}

QoS2Buffers ==
    {FirstChunk(sp) : sp \in HeaderOnlySplits}
    \cup {SecondChunk(sp) : sp \in HeaderOnlySplits}
    \cup QoS2Packets
    \cup {<<CLIENT_PACKET_TYPE_PUBREC, 2, 1, 2>>}

QoS2Arrivals ==
    {p \in InboundPackets :
        p.type \in QoS2RxTypes \cup {MQTT_PACKET_TYPE_PUBACK}}

SendQoS2 == SendFrom(QoS2Buffers)

CallbackQoS2 == DataReceived({<<p>> : p \in QoS2Arrivals})

NextBoth == SendQoS2 \/ CallbackQoS2

SpecBoth == Init /\ [][NextBoth]_vars

SpecOut == Init /\ [][NextOut]_vars

NextVarint == EncodeLength \/ DecodeLength

SpecVarint == Init /\ [][NextVarint]_vars

SendConnect == SendFrom(ConnectBuffers)

NextConnect == SendConnect

SpecConnect == Init /\ [][NextConnect]_vars

SendSubscribe == SendFrom(SubscribeBuffers)

NextSubscribe == SendSubscribe

SpecSubscribe == Init /\ [][NextSubscribe]_vars

\* A SUBSCRIBE going out and its SUBACK coming in: one filter with each
\* requested QoS, SUBACKs with identifiers in and out of one byte.
RequestedSubscribes == {SubscribeOf(<<<<(<<97>>), q>>>>) : q \in QosBytes}

SubackPackets ==
    {RxPacket(MQTT_PACKET_TYPE_SUBACK, 3, TRUE, id, NoPublish) :
        id \in {0, 7, 258, 65535}}
    \cup {RxPacket(MQTT_PACKET_TYPE_SUBACK, 3, FALSE, 258, NoPublish)}

SendRequested == SendFrom(RequestedSubscribes)

CallbackSuback == DataReceived({<<p>> : p \in SubackPackets})

NextSuback == SendRequested \/ CallbackSuback \/ IotBleMqttTransportReceive

SpecSuback == Init /\ [][NextSuback]_vars

SendAnyPublish == SendFrom(PublishBuffers)

NextPublish == SendAnyPublish

SpecPublish == Init /\ [][NextPublish]_vars

SendScan == SendFrom(ScanBuffers)

NextScan == SendScan

SpecScan == Init /\ [][NextScan]_vars

\* the handler filled the scratch list beyond its last entry
WroteBehindList(o) ==
    /\ o.handed # NoRecord
    /\ o.handed.kind \in {"subscribe", "unsubscribe"}
    /\ o.handed.count > MQTT_MAX_SUBS_PER_PACKET

\* a call on a (UN)SUBSCRIBE that may hold more filters than
\* _subscriptions has entries.  The writes behind the array are undefined:
\* they land in memory the transport does not read again and the call goes
\* on, or they stop the call (clobbers)
SendOverfullDispatched(buf, env, o, clobbers) ==
    TransportSendFrame(buf, env,
        IF clobbers /\ WroteBehindList(o)
        THEN Outcome(o.handler, "Fault", NoRecord, 0, o.info, o.subs, TRUE)
        ELSE o)

SendOverfull ==
    /\ ~halted
    /\ \E buf \in OverfullBuffers, env \in Environments, clobbers \in BOOLEAN :
          SendOverfullDispatched(buf, env,
              Dispatch(buf, env.g, env.allocOk, env.serOk, env.asserts,
                       publishInfo, subscriptions),
              clobbers)
    /\ UNCHANGED <<inVars, rl, ser, fifo>>

NextOverfull == SendOverfull

SpecOverfull == Init /\ [][NextOverfull]_vars

SendDeclared == SendFrom(UnderDeclaredBuffers \cup DeclaredBuffers)

NextDeclared == SendDeclared

SpecDeclared == Init /\ [][NextDeclared]_vars

NextFifo == DispatchBegin \/ DispatchPush \/ ReceiveBetween

SpecFifo == Init /\ [][NextFifo]_vars

\* The two contexts side by side: a PUBLISH written as header and payload
\* and a SUBSCRIBE going out, acks and PUBLISH packets coming in.
SharedBuffers ==
    {HeaderOf(2), PayloadOf(TRUE), SubscribeOf(<<<<(<<97>>), 1>>>>)}

SendShared == SendFrom(SharedBuffers)

CallbackShared == DataReceived({<<p>> : p \in FifoPackets})

NextContexts == SendShared \/ CallbackShared

SpecContexts == Init /\ [][NextContexts]_vars

\* PUBLISH packets coming in: every combination of QoS 0 and 1, dup and
\* retain, with and without a payload
RxPublishes ==
    {RxPacket(MQTT_PACKET_TYPE_PUBLISH, 9, TRUE, PacketId,
              RxPublish(q, d, r, Topic, pl)) :
        q \in {0, 1}, d \in BOOLEAN, r \in BOOLEAN, pl \in {<<>>, <<9>>}}

CallbackPublish == DataReceived({<<p>> : p \in RxPublishes})

NextRxPublish == CallbackPublish \/ IotBleMqttTransportReceive

SpecRxPublish == Init /\ [][NextRxPublish]_vars

NextSerialize == SerializeAck \/ SerializeSuback \/ SerializePingresp

SpecSerialize == Init /\ [][NextSerialize]_vars

NextDecode == ReceiveLength \/ DecodeReceived

SpecDecode == Init /\ [][NextDecode]_vars

-----------------------------------------------------------------------------
(* Properties.  lastSend and lastAccept are the logs of the last outbound  *)
(* and the last inbound call.                                              *)

\* the leading type nibble of a non-empty buffer
TypeNibble(buf) == PacketTypeOf(buf, 0)

ClientTypes ==
    {CLIENT_PACKET_TYPE_CONNECT, CLIENT_PACKET_TYPE_PUBLISH,
     CLIENT_PACKET_TYPE_PUBACK, CLIENT_PACKET_TYPE_SUBSCRIBE,
     CLIENT_PACKET_TYPE_UNSUBSCRIBE, CLIENT_PACKET_TYPE_PINGREQ,
     CLIENT_PACKET_TYPE_DISCONNECT}

\* the call handed a frame to the channel and the channel took all of it
FrameAccepted(s) ==
    s.handed # NoRecord /\ s.sendCalls = 1 /\ s.bytesSend = s.packetSize

\* the call met an error: a parse or serialize error, or a short send
SendError(s) ==
    s.status # "MQTTSuccess" \/ (s.sendCalls = 1 /\ s.bytesSend # s.packetSize)

\* the call was a PUBLISH header whose payload is still pending
HeaderPending(s) ==
    /\ s.status = "MQTTSuccess" /\ ~s.wasPending
    /\ s.handed = NoRecord /\ s.sendCalls = 0
    /\ publishInfo.pending

\* C1 as stated: every call that returns reports bytesToWrite exactly when
\* a frame was handed to the channel and accepted in full, and 0 exactly
\* when an error occurred or the call was a PUBLISH header whose payload is
\* pending.
C1_ZeroWhenPending ==
    (lastSend.called /\ lastSend.returned) =>
        /\ lastSend.ret \in {0, Len(lastSend.buf)}
        /\ (lastSend.ret = Len(lastSend.buf)) <=> FrameAccepted(lastSend)
        /\ (lastSend.ret = 0) <=> (SendError(lastSend) \/ HeaderPending(lastSend))

\* C1 amended: every call that returns reports bytesToWrite exactly when a
\* frame was handed to the channel and accepted in full or the call was a
\* PUBLISH header whose payload is pending, and 0 exactly when an error
\* occurred.
C1_FullWhenPending ==
    (lastSend.called /\ lastSend.returned) =>
        /\ lastSend.ret \in {0, Len(lastSend.buf)}
        /\ (lastSend.ret = Len(lastSend.buf))
              <=> (FrameAccepted(lastSend) \/ HeaderPending(lastSend))
        /\ (lastSend.ret = 0) <=> SendError(lastSend)

C1_Witness ==
    /\ lastSend.called /\ lastSend.returned
    /\ HeaderPending(lastSend)
    /\ Len(lastSend.buf) > 0
    /\ lastSend.ret = Len(lastSend.buf)

\* C2: a call made while the reassembly is pending is handled by the
\* publish reassembler whatever the first byte of its buffer is; no other
\* handler and no rejection branch runs.
C2_PendingRoutesToReassembler ==
    (lastSend.called /\ lastSend.wasPending) =>
        lastSend.handler = "handleOutgoingPublish"

C2_Witness ==
    /\ lastSend.called /\ lastSend.wasPending
    /\ TypeNibble(lastSend.buf) = CLIENT_PACKET_TYPE_PUBACK
    /\ lastSend.handler = "handleOutgoingPublish"

\* what the BLE serializer is given of a publish
PublishContent(r) ==
    [dup |-> r.info.dup, retain |-> r.info.retain, qos |-> r.info.qos,
     topicNameLength |-> r.info.topicNameLength,
     topic |-> r.info.pTopicName.bytes,
     packetIdentifier |-> r.packetIdentifier,
     payloadLength |-> r.info.payloadLength,
     payload |-> r.info.pPayload.bytes]

NoFault(env) == env.allocOk /\ env.serOk /\ env.chanOk

\* the publish a single call with the whole packet hands to the serializer
WholePublish(sp) ==
    LET whole == MkPublish(sp[1], Topic, PacketId, sp[2])
    IN handleOutgoingPublish(ZeroPublishInfo, whole, 0, Len(whole),
                             TRUE, TRUE, TRUE, ZeroSubscriptions).handed

Handed(first, second) ==
    SelectSeq(<<first.handed, second.handed>>, LAMBDA r : r # NoRecord)

\* C3: for every split of a PUBLISH into a first chunk (header, topic, id
\* and none or part of the payload) and a second chunk with the remaining
\* payload, the two calls hand the serializer one publish, equal in dup,
\* retain, QoS, topic, packet id, payload bytes and payload length to the
\* one a single call with the whole packet hands over.
C3_SplitEqualsWhole ==
    [][\A sp \in PublishSplits :
         (/\ lastSend.called /\ lastSend.returned /\ ~lastSend.wasPending
          /\ lastSend.buf = FirstChunk(sp) /\ NoFault(lastSend.env)
          /\ lastSend'.buf = SecondChunk(sp) /\ NoFault(lastSend'.env)
          /\ lastSend'.returned)
         => /\ Len(Handed(lastSend, lastSend')) = 1
            /\ PublishContent(Handed(lastSend, lastSend')[1])
                 = PublishContent(WholePublish(sp))]_vars

\* C4: a call made while the reassembly is pending with a buffer whose
\* length differs from the pending payload length hands no record to the
\* serializer and no frame to the channel, and reports no bytes written.
C4_MismatchRejected ==
    [][(/\ publishInfo.pending
        /\ lastSend' # lastSend
        /\ Len(lastSend'.buf) # publishInfo.payloadLength)
       => (/\ lastSend'.handed = NoRecord
           /\ lastSend'.sendCalls = 0
           /\ lastSend'.ret = 0)]_vars

\* the index at which the payload of the PUBLISH in the slot starts
PayloadStart(info) ==
    1 + 1 + 2 + info.topicNameLength + (IF info.qos > 0 THEN 2 ELSE 0)

\* C5: the slot becomes pending only by a PUBLISH call made while it is
\* idle whose buffer ends before a non-empty payload starts; a call made
\* while it is pending that returns leaves it idle, whether serialization
\* succeeded or failed; an idle slot has all its fields cleared.
C5_SlotLifecycle ==
    [][/\ (~publishInfo.pending /\ publishInfo'.pending) =>
            /\ lastSend'.handler = "handleOutgoingPublish"
            /\ ~lastSend'.wasPending
            /\ TypeNibble(lastSend'.buf) = CLIENT_PACKET_TYPE_PUBLISH
            /\ Len(lastSend'.buf) <= PayloadStart(publishInfo')
            /\ publishInfo'.payloadLength # 0
            /\ lastSend'.handed = NoRecord
       /\ (publishInfo.pending /\ lastSend' # lastSend /\ lastSend'.returned) =>
            /\ lastSend'.wasPending
            /\ publishInfo' = ZeroPublishInfo
       /\ (lastSend'.returned /\ ~publishInfo'.pending) =>
            publishInfo' = ZeroPublishInfo]_vars

C5_Witness ==
    /\ lastSend.called /\ lastSend.returned /\ lastSend.wasPending
    /\ lastSend.status # "MQTTSuccess"
    /\ lastSend.handed # NoRecord
    /\ publishInfo = ZeroPublishInfo

\* the outbound half of C6 for a call made in the reassembly states `states`
QoS2SendFails(states) ==
    (/\ lastSend.called
     /\ lastSend.wasPending \in states
     /\ TypeNibble(lastSend.buf) \in QoS2Types)
    => /\ lastSend.returned
       /\ lastSend.status = "MQTTSendFailed"
       /\ lastSend.ret = 0
       /\ lastSend.sendCalls = 0
       /\ lastSend.handed = NoRecord

\* the inbound half of C6
QoS2AcceptFails ==
    (lastAccept.called /\ lastAccept.type \in QoS2RxTypes)
    => /\ lastAccept.status = "MQTTRecvFailed"
       /\ lastAccept.requested = <<>>
       /\ lastAccept.kept
       /\ lastAccept.appended = <<>>

\* C6 as stated: in every reassembly state a buffer of type PUBREC, PUBREL
\* or PUBCOMP fails outbound with the QoS 2 error, 0 returned and nothing
\* handed to the channel, and a packet of these types fails inbound with
\* nothing queued.
C6_QoS2FailsAlways == QoS2SendFails(BOOLEAN) /\ QoS2AcceptFails

\* C6 amended: the outbound half holds of the calls made with no reassembly
\* pending; the inbound half holds always.
C6_QoS2FailsWhenIdle == QoS2SendFails({FALSE}) /\ QoS2AcceptFails

C6_Witness ==
    /\ lastSend.called /\ ~lastSend.wasPending
    /\ TypeNibble(lastSend.buf) = CLIENT_PACKET_TYPE_PUBREL
    /\ lastSend.status = "MQTTSendFailed" /\ lastSend.ret = 0
    /\ lastAccept.called
    /\ lastAccept.type = MQTT_PACKET_TYPE_PUBREL
    /\ lastAccept.status = "MQTTRecvFailed"

\* C7: with no reassembly pending, a buffer whose type nibble is neither a
\* client packet type nor a QoS 2 type is rejected as malformed: the call
\* returns 0, nothing is serialized or sent, and the slot is unchanged.
C7_ServerOnlyRejected ==
    [][(/\ ~publishInfo.pending
        /\ lastSend' # lastSend
        /\ TypeNibble(lastSend'.buf) \notin ClientTypes \cup QoS2Types)
       => (/\ lastSend'.returned
           /\ lastSend'.status = "MQTTBadParameter"
           /\ lastSend'.ret = 0
           /\ lastSend'.sendCalls = 0
           /\ lastSend'.handed = NoRecord
           /\ publishInfo' = publishInfo)]_vars

C7_Witness ==
    /\ lastSend.called /\ lastSend.returned /\ ~lastSend.wasPending
    /\ TypeNibble(lastSend.buf) = MQTT_PACKET_TYPE_SUBACK
    /\ lastSend.status = "MQTTBadParameter"
    /\ lastSend.ret = 0

\* C8: a call of IotBleMqttTransportAcceptData that returns an error has
\* consumed no byte of the channel and leaves the queue holding exactly the
\* bytes it held before.
C8_ErrorLeavesChannelAndQueue ==
    (lastAccept.called /\ lastAccept.status # "MQTTSuccess") =>
        /\ lastAccept.flushes = <<>>
        /\ lastAccept.consumed = 0
        /\ lastAccept.kept
        /\ lastAccept.appended = <<>>

C8_Witness ==
    /\ lastAccept.called
    /\ lastAccept.status = "MQTTBadParameter"
    /\ lastAccept.type = MQTT_PACKET_TYPE_PUBLISH
    /\ lastAccept.consumed = 0
    /\ rxChannel # <<>>

\* C9: a call of IotBleMqttTransportAcceptData that returns success has
\* drained the channel once, by the length the peek reported, however many
\* of the bytes it pushed the queue took.
C9_SuccessDrainsPeeked ==
    (lastAccept.called /\ lastAccept.status = "MQTTSuccess") =>
        /\ lastAccept.flushes = <<lastAccept.peeked>>
        /\ lastAccept.consumed = lastAccept.peeked

C9_Witness ==
    /\ lastAccept.called
    /\ lastAccept.status = "MQTTSuccess"
    /\ Len(lastAccept.appended) < Len(lastAccept.requested)
    /\ Len(lastAccept.appended) # lastAccept.peeked
    /\ lastAccept.consumed = lastAccept.peeked

\* C10: getRemainingLength of the bytes encodeRemainingLength wrote for n
\* in 0..268435455 returns n and consumes as many bytes as were written,
\* and at most 4 bytes are written.
C10_VarintRoundTrip ==
    /\ rl.phase # "idle" => (Len(rl.bytes) \in 1..4 /\ rl.n \in 0..MAX_REMAINING_LENGTH)
    /\ rl.phase = "decoded" =>
          (rl.value = rl.n /\ rl.consumed = Len(rl.bytes))

C10_Witness ==
    /\ rl.phase = "decoded"
    /\ rl.n = MAX_REMAINING_LENGTH
    /\ Len(rl.bytes) = 4
    /\ rl.value = rl.n

\* the first k bytes of bytes all have the continuation bit set
AllContinue(bytes, k) ==
    /\ Len(bytes) >= k
    /\ \A i \in 1..k : bytes[i] \div 128 = 1

\* bytes has a byte with the continuation bit clear among its first four
TerminatedWithin4(bytes) ==
    \E i \in 1..MAX_ENCODE_LENGTH : i <= Len(bytes) /\ bytes[i] \div 128 = 0

\* C11: getRemainingLength returns the invalid sentinel 268435456 for every
\* byte sequence whose first four bytes all have the continuation bit set,
\* whatever their data bits, and reads four bytes and no fifth; for every
\* sequence terminated within four bytes it returns at most 268435455.
C11_FiveByteLengthInvalid ==
    rl.phase = "parsed" =>
        /\ AllContinue(rl.bytes, MAX_ENCODE_LENGTH) =>
              /\ rl.value = REMAINING_LENGTH_INVALID
              /\ rl.consumed = MAX_ENCODE_LENGTH
        /\ TerminatedWithin4(rl.bytes) =>
              /\ rl.value \in 0..MAX_REMAINING_LENGTH
              /\ rl.consumed \in 1..MAX_ENCODE_LENGTH

C11_Witness ==
    /\ rl.phase = "parsed"
    /\ rl.bytes = <<255, 128, 255, 128, 0>>
    /\ rl.value = REMAINING_LENGTH_INVALID
    /\ rl.consumed = 4

Malformed(c) == Flaws(c) > 0

MalformedConnects == {ConnectOf(c) : c \in {d \in ConnectChoices : Malformed(d)}}

\* C12: for every CONNECT whose protocol level is not 4, or whose reserved
\* flag bit is set, or whose client identifier is empty, or whose will flag
\* is set with an empty will topic, or whose user name or password flag is
\* set with an empty user name or password, the call ends with a protocol
\* error, hands nothing to the serializer or the channel and returns 0.
C12_MalformedConnectRejected ==
    (lastSend.called /\ lastSend.buf \in MalformedConnects) =>
        /\ lastSend.returned
        /\ lastSend.handler = "handleOutgoingConnect"
        /\ lastSend.status = "MQTTBadParameter"
        /\ lastSend.handed = NoRecord
        /\ lastSend.sendCalls = 0
        /\ lastSend.ret = 0

C12_Witness ==
    /\ lastSend.called
    /\ lastSend.buf =
          ConnectOf([level |-> 4, reserved |-> FALSE, will |-> TRUE,
                     user |-> TRUE, pass |-> TRUE, clientId |-> <<100, 49>>,
                     willTopic |-> <<119>>, willPayload |-> <<>>,
                     userName |-> <<117>>, password |-> <<>>])
    /\ lastSend.status = "MQTTBadParameter"
    /\ lastSend.ret = 0

\* the well-formed packets with the will, user name and password flags set
FullConnects ==
    {c \in ConnectChoices : Flaws(c) = 0 /\ c.will /\ c.user /\ c.pass}

\* the offset in ConnectOf(c) of the client identifier's bytes
ClientIdOffset(c) ==
    1 + Len(encodeRemainingLength(10 + Len(ConnectFields(c)))) + 10 + 2

\* ptr and length denote the length-prefixed field holding bytes whose
\* length prefix is at offset off of buf
FieldIs(ptr, length, buf, off, bytes) ==
    /\ ~ptr.null
    /\ ptr.off = off + 2
    /\ length = Len(bytes)
    /\ ptr.bytes = View(buf, 0, off + 2, Len(bytes))
    /\ SubSeq(buf, off + 3, off + 2 + Len(bytes)) = bytes

\* the user name and the password of the record r are the fields of c
UserAndPasswordOf(r, c, off) ==
    /\ FieldIs(r.config.pUserName, r.config.userNameLength, ConnectOf(c),
               off, c.userName)
    /\ FieldIs(r.config.pPassword, r.config.passwordLength, ConnectOf(c),
               off + 2 + Len(c.userName), c.password)

\* the will topic and the will message of the record r are the fields of c
WillOf(r, c, off) ==
    /\ "will" \in DOMAIN r
    /\ FieldIs(r.will.pTopicName, r.will.topicNameLength, ConnectOf(c),
               off, c.willTopic)
    /\ FieldIs(r.will.pPayload, r.will.payloadLength, ConnectOf(c),
               off + 2 + Len(c.willTopic), c.willPayload)

\* C13: for a well-formed CONNECT with the will, user name and password
\* flags set, the record handed to the BLE serializer holds the will topic,
\* the will message, the user name and the password, each with the offset
\* and the length of its field in the packet, each field starting where the
\* one before it ends.
C13_OptionalFieldsPopulated ==
    \A c \in FullConnects :
        (lastSend.called /\ lastSend.buf = ConnectOf(c)) =>
            /\ lastSend.handed # NoRecord
            /\ WillOf(lastSend.handed, c,
                      ClientIdOffset(c) + Len(c.clientId))
            /\ UserAndPasswordOf(lastSend.handed, c,
                      ClientIdOffset(c) + Len(c.clientId)
                        + 2 + Len(c.willTopic) + 2 + Len(c.willPayload))

\* the offset in a SUBSCRIBE made of list of the length prefix of filter i
RECURSIVE FilterOffset(_, _)
FilterOffset(list, i) ==
    IF i = 1
    THEN 1 + Len(encodeRemainingLength(2 + Len(FilterBytes(list, TRUE)))) + 2
    ELSE FilterOffset(list, i - 1) + 2 + Len(list[i - 1][1]) + 1

\* entry holds filter i of list with the QoS qos
EntryIs(entry, list, i, qos) ==
    /\ entry.topicFilterLength = Len(list[i][1])
    /\ ~entry.pTopicFilter.null
    /\ entry.pTopicFilter.off = FilterOffset(list, i) + 2
    /\ entry.pTopicFilter.bytes
         = View(SubscribeOf(list), 0, FilterOffset(list, i) + 2, Len(list[i][1]))
    /\ entry.qos = qos

\* the SUBSCRIBE made of list was parsed as Qos(_) says
ParsedAs(list, Qos(_)) ==
    (lastSend.called /\ lastSend.buf = SubscribeOf(list)) =>
        /\ lastSend.handed # NoRecord
        /\ lastSend.handed.kind = "subscribe"
        /\ lastSend.handed.count = Len(list)
        /\ \A i \in 1..Len(list) :
              /\ EntryIs(subscriptions[i], list, i, Qos(list[i][2]))
              /\ lastSend.handed.list[i] = subscriptions[i]

\* C14: for every SUBSCRIBE with n >= 1 filters, n within the capacity of
\* the list, parseSubscribe reports n and fills entries 0..n-1 in packet
\* order, entry i holding the offset and length of filter i and the QoS
\* given by bits 0-1 of the byte behind it.
C14_SubscribeEntries ==
    \A list \in SubscribeLists : ParsedAs(list, LAMBDA q : q % 4)

\* the offset in an UNSUBSCRIBE made of list of the length prefix of filter i
RECURSIVE UnsubFilterOffset(_, _)
UnsubFilterOffset(list, i) ==
    IF i = 1
    THEN 1 + Len(encodeRemainingLength(2 + Len(FilterBytes(list, FALSE)))) + 2
    ELSE UnsubFilterOffset(list, i - 1) + 2 + Len(list[i - 1][1])

\* the entries handed over for the UNSUBSCRIBE made of list are its filters,
\* each starting where the one before it ends
NoQosByteConsumed(list) ==
    (lastSend.called /\ lastSend.buf = UnsubscribeOf(list)) =>
        /\ lastSend.handed # NoRecord
        /\ lastSend.handed.count = Len(list)
        /\ \A i \in 1..Len(list) :
              /\ lastSend.handed.list[i].topicFilterLength = Len(list[i][1])
              /\ lastSend.handed.list[i].pTopicFilter.off
                   = UnsubFilterOffset(list, i) + 2

\* lists whose packet has a remaining length below 128
ShortUnsubscribeLists ==
    {list \in UnsubscribeLists : 2 + Len(FilterBytes(list, FALSE)) < 128}

\* C15: after an UNSUBSCRIBE is parsed, whatever SUBSCRIBE and UNSUBSCRIBE
\* packets were parsed before on the same scratch list, no QoS byte was
\* consumed between its filters and every entry handed to the BLE
\* unsubscribe serializer has QoS 0.
C15_UnsubscribeQosZero ==
    /\ \A list \in ShortUnsubscribeLists : NoQosByteConsumed(list)
    /\ (lastSend.called /\ lastSend.handler = "handleOutgoingUnsubscribe"
          /\ lastSend.handed # NoRecord) =>
          \A i \in 1..Len(lastSend.handed.list) : lastSend.handed.list[i].qos = 0

\* the call for buf ended with a protocol error and nothing was sent
RejectedUnsent(bufs) ==
    (lastSend.called /\ lastSend.buf \in bufs) =>
        /\ lastSend.returned
        /\ lastSend.status = "MQTTBadParameter"
        /\ lastSend.handed = NoRecord
        /\ lastSend.sendCalls = 0
        /\ lastSend.ret = 0

\* C16: a SUBSCRIBE or UNSUBSCRIBE whose filters do not consume the declared
\* remaining length exactly (the last filter overruns it, or bytes are left
\* over) or that holds no filter is rejected with a protocol error, and
\* nothing is sent.
C16_InexactFiltersRejected ==
    /\ RejectedUnsent(EmptyPackets)
    /\ RejectedUnsent(OverrunPackets)
    /\ RejectedUnsent(ResidualPackets)


-----------------------------------------------------------------------------
(* The ack and control serializers.                                        *)

\* the call of fn under test has returned
SerializerReturned(fn) == ser.fn = fn /\ ser.returned

AcceptedType(type) ==
    /\ lastAccept.called
    /\ lastAccept.type = type
    /\ lastAccept.status = "MQTTSuccess"

\* C18: for every inbound SUBACK with a non-zero packet identifier that is
\* accepted, the frame handed to the byte queue is exactly
\* [SUBACK type, 3, id high byte, id low byte, 1], whatever QoS the SUBSCRIBE
\* sent before it asked for.
C18_SubackGrantsQos1 ==
    (AcceptedType(MQTT_PACKET_TYPE_SUBACK) /\ lastAccept.packetIdentifier # 0) =>
        lastAccept.requested
            = <<MQTT_PACKET_TYPE_SUBACK, 3, lastAccept.packetIdentifier \div 256,
                lastAccept.packetIdentifier % 256, 1>>

C18_Witness ==
    /\ lastSend.called
    /\ lastSend.handed # NoRecord
    /\ lastSend.handed.kind = "subscribe"
    /\ subscriptions[1].qos = 0
    /\ AcceptedType(MQTT_PACKET_TYPE_SUBACK)
    /\ lastAccept.packetIdentifier = 258
    /\ lastAccept.requested = <<MQTT_PACKET_TYPE_SUBACK, 3, 1, 2, 1>>
    /\ lastAccept.appended = lastAccept.requested

\* the fixed size of the frame the serializer under test writes
FixedSize ==
    CASE ser.fn = "transportSerializeAck" -> SIZE_OF_SIMPLE_ACK
      [] ser.fn = "transportSerializeSuback" -> SIZE_OF_SUB_ACK
      [] ser.fn = "transportSerializePingresp" -> SIZE_OF_PING
      [] OTHER -> 0

SmallBufferOutcome ==
    ser.size < FixedSize =>
        IF ser.asserts THEN ~ser.returned /\ ser.bytes = <<>>
        ELSE \/ ser.returned /\ ser.status = "MQTTBadParameter" /\ ser.bytes = <<>>
             \/ ser.overrun = FixedSize - ser.size /\ Len(ser.bytes) = FixedSize

-----------------------------------------------------------------------------
(* The frame on the channel.                                               *)

\* the last outbound call parsed its packet and the BLE serializer returned
\* a frame that is not empty
FrameSerialized ==
    /\ lastSend.called /\ lastSend.returned
    /\ lastSend.status = "MQTTSuccess"
    /\ lastSend.handed # NoRecord
    /\ lastSend.packetSize > 0

\* C20: every outbound call that parses its packet and BLE-serializes it
\* into a non-empty frame calls the channel's send exactly once, with the
\* full encoded length of the serializer's frame.
C20_FrameSentOnce ==
    FrameSerialized =>
        /\ lastSend.sendCalls = 1
        /\ lastSend.packetSize = EncodedSize(lastSend.handed)
        /\ lastSend.bytesSend
             = IotBleDataTransfer_Send(EncodedSize(lastSend.handed),
                                       lastSend.env.chanOk)

C20_Witness ==
    /\ FrameSerialized
    /\ lastSend.buf = MkConnect(4, 2, 60, Str(<<100, 49>>))
    /\ lastSend.env = FairWeather
    /\ lastSend.handed.kind = "connect"
    /\ lastSend.handed.config.userNameLength = 0
    /\ lastSend.handed.config.passwordLength = 0
    /\ lastSend.sendCalls = 1
    /\ lastSend.bytesSend = 8 + 2

\* C21: in every outbound call that returns, the frame the BLE serializer
\* produced, if any, was handed to IotBleDataTransfer_Send and then released
\* exactly once, also when the channel took fewer bytes than the frame
\* holds; a call without a frame releases nothing, so no frame outlives the
\* call that produced it.
C21_FrameReleasedOnce ==
    (lastSend.called /\ lastSend.returned) =>
        /\ lastSend.frame \in {<<>>, <<"serialized", "send", "free">>}
        /\ lastSend.handed # NoRecord /\ lastSend.status = "MQTTSuccess"
             => lastSend.frame # <<>>

C21_Witness ==
    /\ lastSend.called /\ lastSend.returned
    /\ ~lastSend.env.chanOk
    /\ lastSend.sendCalls = 1
    /\ lastSend.bytesSend < lastSend.packetSize
    /\ lastSend.frame = <<"serialized", "send", "free">>

-----------------------------------------------------------------------------
(* Outbound PUBLISH: flags, QoS 2, the topic copy.                         *)

\* the QoS bits (1-2) of a flags nibble
QosBits(flags) == (flags \div 2) % 4

\* the last call took, with no payload pending, the whole PUBLISH with
\* these flags
SentWhole(flags, withPayload) ==
    /\ lastSend.called /\ lastSend.returned /\ ~lastSend.wasPending
    /\ lastSend.buf = PublishOf(flags, withPayload)

\* C22 as stated: an outbound PUBLISH whose flags request QoS 2 is
\* rejected, no frame is handed to the channel and the call returns 0.
C22_QoS2PublishRejected ==
    \A f \in FlagNibbles, w \in BOOLEAN :
        (QosBits(f) = 2 /\ SentWhole(f, w)) =>
            lastSend.sendCalls = 0 /\ lastSend.ret = 0

\* C22 amended: an outbound PUBLISH whose flags request QoS 2 is not
\* rejected but down-converted: the record handed to the BLE serializer
\* carries QoS 1 and, unless the serializer or the channel fails, the frame
\* is handed to the channel and the call returns the full input length.
C22_QoS2PublishDownConverted ==
    \A f \in FlagNibbles, w \in BOOLEAN :
        (QosBits(f) = 2 /\ SentWhole(f, w)) =>
            /\ lastSend.handed # NoRecord
            /\ lastSend.handed.kind = "publish"
            /\ lastSend.handed.info.qos = 1
            /\ lastSend.handed.packetIdentifier = PacketId
            /\ (lastSend.env.serOk /\ lastSend.env.chanOk) =>
                  lastSend.sendCalls = 1 /\ lastSend.ret = Len(lastSend.buf)

C22_Witness ==
    /\ SentWhole(4, TRUE)
    /\ lastSend.env = FairWeather
    /\ lastSend.handed # NoRecord
    /\ lastSend.handed.info.qos = 1
    /\ lastSend.sendCalls = 1
    /\ lastSend.ret = Len(PublishOf(4, TRUE))

-----------------------------------------------------------------------------
(* The byte queue and the two contexts.                                    *)

\* C23: with the writes of the inbound dispatch and the reads of
\* IotBleMqttTransportReceive interleaved in every way, each read returns
\* between 0 and bytesToRead bytes, returns none only if the queue was empty
\* when its wait ended, and the bytes read so far followed by the bytes
\* still queued are exactly the bytes the queue took, in their order: no
\* byte is lost, duplicated or reordered.
C23_QueueIsFifo ==
    /\ fifo.read \o streamBuffer = fifo.accepted
    /\ fifo.last.called =>
          /\ Len(fifo.last.data) \in 0..fifo.last.bytesToRead
          /\ Len(fifo.last.data) = 0 => fifo.last.wasEmpty

\* a short read between two writes of one PUBLISH, after a SUBACK was read
C23_Witness ==
    /\ fifo.last.called /\ fifo.last.during
    /\ Len(fifo.last.data) \in 1..(fifo.last.bytesToRead - 1)
    /\ fifo.pending # <<>>
    /\ Len(fifo.read) > SIZE_OF_SUB_ACK
    /\ SubSeq(fifo.read, 1, SIZE_OF_SUB_ACK) = <<MQTT_PACKET_TYPE_SUBACK, 3, 1, 2, 1>>

\* C24: a step of the inbound dispatch (one that changes the channel, the
\* byte queue or the log of the dispatch) leaves the reassembly slot, the
\* subscription list and the result of the last outbound call as they were;
\* a step of the outbound dispatch leaves the channel and the byte queue as
\* they were, and is the call IotBleMqttTransportSend makes on the slot and
\* the list alone, whatever was dispatched inbound before it.
C24_ContextsDisjoint ==
    [][/\ inVars' # inVars => outVars' = outVars
       /\ outVars' # outVars =>
             /\ inVars' = inVars
             /\ \E buf \in SharedBuffers, env \in Environments :
                   TransportSend(buf, env)]_vars

\* an inbound PUBLISH was dispatched and queued while the payload of an
\* outbound PUBLISH is pending
C24_Witness ==
    /\ publishInfo.pending
    /\ lastSend.called /\ lastSend.buf = HeaderOf(2)
    /\ lastAccept.called
    /\ lastAccept.type = MQTT_PACKET_TYPE_PUBLISH
    /\ lastAccept.status = "MQTTSuccess"
    /\ streamBuffer # <<>>

-----------------------------------------------------------------------------
(* Outbound PUBACK.                                                        *)

\* C25: for every outbound PUBACK [0x40, 2, idHi, idLo], the identifier
\* handed to the BLE PUBACK serializer is idHi * 256 + idLo, the one in
\* bytes 2-3 of the client's packet.
C25_PubackIdentifier ==
    (/\ lastSend.called /\ lastSend.returned /\ ~lastSend.wasPending
     /\ Len(lastSend.buf) = 4
     /\ lastSend.buf[1] = CLIENT_PACKET_TYPE_PUBACK
     /\ lastSend.buf[2] = 2) =>
        /\ lastSend.handed # NoRecord
        /\ lastSend.handed.kind = "puback"
        /\ lastSend.handed.packetIdentifier
             = lastSend.buf[3] * 256 + lastSend.buf[4]

\* C26: for every flags nibble of an outbound PUBLISH, the decoded dup is
\* bit 3, the decoded retain is bit 0 and the decoded QoS is bits 1-2 (for
\* the values 0 and 1, which the transport keeps), each whatever the other
\* bits are.
C26_FlagsIndependent ==
    \A f \in FlagNibbles, w \in BOOLEAN :
        (SentWhole(f, w) /\ lastSend.handed # NoRecord) =>
            /\ lastSend.handed.info.dup = (Bit(f, 3) = 1)
            /\ lastSend.handed.info.retain = (Bit(f, 0) = 1)
            /\ QosBits(f) <= 1 => lastSend.handed.info.qos = QosBits(f)

-----------------------------------------------------------------------------
(* Inbound PUBLISH.                                                        *)

\* the standard MQTT 3.1.1 PUBLISH frame of a publish record
PublishFrame(info, packetId) ==
    <<MQTT_PACKET_TYPE_PUBLISH + (IF info.dup THEN 8 ELSE 0) + 2 * info.qos
        + (IF info.retain THEN 1 ELSE 0)>>
    \o encodeRemainingLength(2 + info.topicNameLength + info.payloadLength
                               + (IF info.qos = 1 THEN 2 ELSE 0))
    \o <<info.topicNameLength \div 256, info.topicNameLength % 256>>
    \o info.pTopicName
    \o (IF info.qos = 1 THEN <<packetId \div 256, packetId % 256>> ELSE <<>>)
    \o info.pPayload

\* C27: for every inbound PUBLISH record with QoS 0 or 1 (identifier not 0
\* when QoS 1) dispatched with room in the queue for its frame, the bytes
\* appended to the queue are the standard PUBLISH frame of the record:
\* first byte 0x30 with dup in bit 3, QoS in bits 1-2 and retain in bit 0,
\* the varint of the remaining length, the topic length, the topic, the
\* identifier if QoS 1, and the payload.
C27_InboundPublishFrame ==
    (/\ lastAccept.called
     /\ lastAccept.type = MQTT_PACKET_TYPE_PUBLISH
     /\ lastAccept.publishInfo.qos \in {0, 1}
     /\ lastAccept.publishInfo.qos = 1 => lastAccept.packetIdentifier # 0
     /\ lastAccept.queued + Len(PublishFrame(lastAccept.publishInfo,
                                        lastAccept.packetIdentifier)) <= QueueCap) =>
        /\ lastAccept.status = "MQTTSuccess"
        /\ lastAccept.appended
             = PublishFrame(lastAccept.publishInfo, lastAccept.packetIdentifier)

-----------------------------------------------------------------------------
(* Termination of the parsers.                                             *)

\* C28: every parser ends on every buffer, in success or an error: no call
\* of the outbound path is left in the protocol-name scan of CONNECT, the
\* filter-counting loop of SUBSCRIBE / UNSUBSCRIBE or the varint decode loop
\* (status Fault: the scan left the buffer, or the count came back to a
\* running offset it had already had).
C28_ParsersTerminate ==
    lastSend.called => lastSend.status # "Fault"

-----------------------------------------------------------------------------
(* Allocation failure in parsePublish.                                     *)

\* C29: when the heap copy of the topic cannot be allocated while an
\* outbound PUBLISH is parsed, the packet is dropped with MQTTNoMemory: the
\* BLE publish serializer is not called, nothing is handed to the channel,
\* IotBleMqttTransportSend returns 0 and the reassembly slot is Idle.
C29_TopicAllocFailureAborts ==
    (/\ lastSend.called
     /\ ~lastSend.wasPending
     /\ lastSend.handler = "handleOutgoingPublish"
     /\ ~lastSend.env.allocOk) =>
        /\ lastSend.status = "MQTTNoMemory"
        /\ lastSend.handed = NoRecord
        /\ lastSend.sendCalls = 0
        /\ lastSend.ret = 0
        /\ ~publishInfo.pending

-----------------------------------------------------------------------------
(* SUBSCRIBE / UNSUBSCRIBE with a remaining length of more than one byte.  *)

\* the bytes the entries of a subscription list stand for in the packet:
\* per entry a two-byte length, the filter and, in a SUBSCRIBE, a QoS byte
RECURSIVE ScannedBytes(_, _)
ScannedBytes(entries, subscribe) ==
    IF entries = <<>> THEN 0
    ELSE 2 + Head(entries).topicFilterLength + (IF subscribe THEN 1 ELSE 0)
         + ScannedBytes(Tail(entries), subscribe)

\* the call for buf, a packet with the given filter bytes, read the packet
\* identifier behind the remaining length field and scanned the filters
\* over the declared remaining length minus 2
ScannedWhole(buf, filters, subscribe) ==
    (lastSend.called /\ lastSend.buf = buf) =>
        /\ lastSend.handed # NoRecord
        /\ lastSend.handed.packetIdentifier = PacketId
        /\ ScannedBytes(lastSend.handed.list, subscribe) = Len(filters)

\* C30: for every SUBSCRIBE and UNSUBSCRIBE, whether its remaining length
\* takes one byte or more (128 and above), the packet identifier handed on
\* is the two bytes right behind the remaining length field and the filters
\* scanned are exactly the declared remaining length minus 2.
C30_AnyLengthFieldSize ==
    /\ \A list \in SubscribeLists :
          ScannedWhole(SubscribeOf(list), FilterBytes(list, TRUE), TRUE)
    /\ \A list \in UnsubscribeLists :
          ScannedWhole(UnsubscribeOf(list), FilterBytes(list, FALSE), FALSE)

-----------------------------------------------------------------------------
(* Errors of the inbound dispatch in the notification context.             *)

\* the last dispatch failed and left its packet at the head of the channel
DispatchFailed(accept, channel) ==
    /\ accept.called
    /\ accept.status # "MQTTSuccess"
    /\ accept.consumed = 0
    /\ accept.flushes = <<>>
    /\ channel # <<>>
    /\ Head(channel).type = accept.type

\* two dispatches saw the same packet and ended alike
SameOutcome(a, b) ==
    /\ a.status = b.status
    /\ a.type = b.type
    /\ a.peeked = b.peeked
    /\ a.packetIdentifier = b.packetIdentifier
    /\ a.publishInfo = b.publishInfo
    /\ a.flushes = b.flushes
    /\ a.consumed = b.consumed
    /\ a.appended = b.appended

\* C31: an error of IotBleMqttTransportAcceptData in the data-received
\* callback does not halt the notification context: the callback returns,
\* the packet stays un-flushed at the head of the channel, and the event
\* firing again on the same channel dispatches the same packet with the
\* same outcome.
C31_ErrorDoesNotHalt ==
    [][/\ (lastAccept'.called /\ lastAccept'.status # "MQTTSuccess") =>
             (~halted' /\ DispatchFailed(lastAccept', rxChannel'))
       /\ (/\ lastAccept.called
           /\ lastAccept.status # "MQTTSuccess"
           /\ rxChannel' = rxChannel
           /\ lastAccept'.called) =>
             SameOutcome(lastAccept', lastAccept)]_vars

-----------------------------------------------------------------------------
(* The heap copy of the topic of an outbound PUBLISH.                      *)

\* C32: after every outbound call no topic copy is live while the
\* reassembly slot is Idle and, the allocator having done its work, exactly
\* one is live while the slot is pending; a copy is released once, right
\* behind the serialization of its publish, in the call that parsed it or
\* in the one that brings the payload, and never twice nor before it is
\* read.
C32_TopicCopyFreedOnce ==
    /\ lastSend.live \in {0, 1}
    /\ ~publishInfo.pending => lastSend.live = 0
    /\ (publishInfo.pending /\ lastSend.returned /\ lastSend.env.allocOk) =>
          lastSend.live = 1
    /\ lastSend.topic \in {<<>>, <<"malloc">>, <<"serialize">>,
                           <<"malloc", "serialize", "free">>,
                           <<"serialize", "free">>}
    /\ lastSend.topic = <<"serialize", "free">> => lastSend.wasPending
    /\ lastSend.topic = <<"serialize">> => lastSend.handed.info.pTopicName.null

C32_Witness ==
    /\ lastSend.called /\ lastSend.returned
    /\ lastSend.wasPending
    /\ lastSend.env.allocOk
    /\ lastSend.topic = <<"serialize", "free">>
    /\ lastSend.live = 0
    /\ ~publishInfo.pending

-----------------------------------------------------------------------------
(* The capacity of the subscription scratch list.                          *)

\* the number of filters calculateNumSubs counts in the (UN)SUBSCRIBE buf
CountedFilters(buf, g) ==
    calculateNumSubs(buf, g, 4, (Rd(buf, g, 1) - 2) % 256,
                     PacketTypeOf(buf, g) = CLIENT_PACKET_TYPE_SUBSCRIBE)

\* C33: for every SUBSCRIBE and UNSUBSCRIBE, parseSubscribe fills the
\* scratch list with no more filters than the list has entries, so no write
\* goes to an index at or above MQTT_MAX_SUBS_PER_PACKET: a packet that
\* holds more filters is rejected, and nothing is written or handed on.
C33_CountWithinCapacity ==
    (/\ lastSend.called
     /\ lastSend.handler \in {"handleOutgoingSubscribe", "handleOutgoingUnsubscribe"}) =>
        /\ lastSend.status # "Fault"
        /\ lastSend.handed # NoRecord =>
              lastSend.handed.count <= MQTT_MAX_SUBS_PER_PACKET
        /\ CountedFilters(lastSend.buf, lastSend.env.g) > MQTT_MAX_SUBS_PER_PACKET =>
              /\ lastSend.returned
              /\ lastSend.status = "MQTTBadParameter"
              /\ lastSend.handed = NoRecord

-----------------------------------------------------------------------------
(* Whole frames in the bounded queue.                                      *)

\* C34: every inbound dispatch that returns success, and so flushes its
\* packet from the channel, has put the whole frame it reconstructed in the
\* queue behind what was queued before, never a leading part of it, so the
\* bytes the consumer reads are a concatenation of complete MQTT frames.
C34_WholeFramesQueued ==
    (lastAccept.called /\ lastAccept.status = "MQTTSuccess") =>
        /\ lastAccept.kept
        /\ lastAccept.appended = lastAccept.requested

-----------------------------------------------------------------------------
(* CONNECT packets whose remaining length holds the byte 77.               *)

WellFormedConnects == {c \in ConnectChoices : Flaws(c) = 0}

\* C35: every well-formed CONNECT (protocol name "MQTT", level 4, reserved
\* bit 0, client identifier not empty) is accepted by parseConnect whatever
\* its remaining length is, the remaining length 77 = 'M' included: the
\* level and the flags are read behind the protocol name, so the record
\* handed to the BLE serializer has the clean-session flag and the client
\* identifier of the packet.
C35_ConnectAnyRemainingLength ==
    \A c \in WellFormedConnects :
        (lastSend.called /\ lastSend.buf = ConnectOf(c)) =>
            /\ lastSend.returned
            /\ lastSend.status # "MQTTBadParameter"
            /\ lastSend.handed # NoRecord
            /\ lastSend.handed.kind = "connect"
            /\ lastSend.handed.config.cleanSession
            /\ FieldIs(lastSend.handed.config.pClientIdentifier,
                       lastSend.handed.config.clientIdentifierLength,
                       ConnectOf(c), ClientIdOffset(c) - 2, c.clientId)

-----------------------------------------------------------------------------
(* The payload length parsePublish computes.                               *)

\* C36: the payload length remainingLength + 1 + encodedLength - index of
\* parsePublish never wraps around: an outbound PUBLISH whose remaining
\* length is smaller than what its topic length, topic and packet
\* identifier take gets no payload length beyond the bytes written, and is
\* neither serialized nor marked pending.
C36_PayloadLengthNoWrap ==
    (/\ lastSend.called /\ lastSend.returned
     /\ ~lastSend.wasPending
     /\ lastSend.buf \in UnderDeclaredBuffers) =>
        /\ ~publishInfo.pending
        /\ SizeLeq(publishInfo.payloadLength, Len(lastSend.buf))
        /\ lastSend.handed = NoRecord

=============================================================================
